---- MODULE Spec2Model ----
(***************************************************************************)
(* A model of the Translation Helps MCP proxy                              *)
(* (src/src/translation_helps_mcp_proxy/mcp_proxy_server.py).              *)
(*                                                                         *)
(* The proxy registers two callbacks with the MCP transport, list_tools    *)
(* and call_tool.  Each invocation of a callback is one cooperative task:  *)
(* it runs up to its single suspension point (the HTTP request to the      *)
(* upstream), is resumed by the reply, and returns; it can be cancelled    *)
(* while the request is in flight.                                         *)
(*                                                                         *)
(* Data conventions                                                        *)
(*   - a Python dict / JSON object is a function from its keys;            *)
(*   - a JSON value under a payload key is a record [t, items, s]:         *)
(*     t = "list" (items), "str" (s), "dict", "num" or "null";             *)
(*   - an Optional value is a record [some, val];                          *)
(*   - a text is the sequence of the fragments an f-string joins: the      *)
(*     literal parts and the interpolated values, in order;                *)
(*   - a URL is the sequence of its parts, "/api/mcp" being one part.      *)
(***************************************************************************)
EXTENDS Integers, Sequences, FiniteSets, TLC

VARIABLES
    upstream_url,   \* self.upstream_url
    enabled_tools,  \* self.enabled_tools: Optional list of tool names
    inv,            \* the callback invocations (tasks) of the transport
    validated_once, \* history: _validate_enabled_tools has passed with a list set
    main,           \* the process: main() and the HTTP client of its proxy
    config          \* ProxyConfig: hiddenParams and filterBookChapterNotes

vars == <<upstream_url, enabled_tools, inv, validated_once, main, config>>

----------------------------------------------------------------------------
(* Bounds of the model *)

MaxTasks == 1
MaxEnabled == 2
MaxArgs == 2
MaxItems == 2
MaxCatalog == 2

\* the invocations of a session, and those of the concurrent specification
SessionTasks == 1..MaxTasks
Tasks == 1..(MaxTasks + 1)

----------------------------------------------------------------------------
(* Generic helpers *)

Range(s) == {s[k] : k \in 1..Len(s)}

SeqsUpTo(S, n) == UNION {[1..k -> S] : k \in 0..n}

\* all dicts whose keys are at most n of the keys K, with values in V
DictsUpTo(K, V, n) == UNION {[S -> V] : S \in {T \in SUBSET K : Cardinality(T) <= n}}

EmptyDict == <<>>

\* Optional[...]
PyNoneOpt == [some |-> FALSE, val |-> <<>>]
Some(v) == [some |-> TRUE, val |-> v]

----------------------------------------------------------------------------
(* JSON payloads, as response.json() returns them *)

\* a payload that is a JSON object with the given fields
JDict(f) == [kind |-> "dict", fields |-> f]
\* Python None: what _call_upstream returns on failure; also JSON null
PyNone == [kind |-> "null", fields |-> EmptyDict]
\* a JSON number other than 0 (truthy, not a container)
JNumber == [kind |-> "number", fields |-> EmptyDict]
\* a non-empty JSON array of numbers (truthy, a container without string members)
JArray == [kind |-> "array", fields |-> EmptyDict]

\* Python truthiness of a decoded payload: None and {} are falsy
Truthy(response) ==
    CASE response.kind = "null" -> FALSE
      [] response.kind = "dict" -> DOMAIN response.fields # {}
      [] OTHER -> TRUE

\* values under a payload key
JList(items) == [t |-> "list", items |-> items, s |-> ""]
JStr(s) == [t |-> "str", items |-> <<>>, s |-> s]
JNull == [t |-> "null", items |-> <<>>, s |-> ""]
JNum == [t |-> "num", items |-> <<>>, s |-> ""]
JObj == [t |-> "dict", items |-> <<>>, s |-> ""]

\* Python truthiness of such a value
TruthyValue(v) ==
    CASE v.t = "list" -> v.items # <<>>
      [] v.t = "str" -> v.s # ""
      [] v.t = "null" -> FALSE
      [] OTHER -> TRUE

----------------------------------------------------------------------------
(* Upstream HTTP: requests and the outcomes of a request *)

NoBody == <<>>

GetRequest(url, query_params) ==
    [verb |-> "GET", url |-> url, params |-> query_params, json |-> NoBody]

PostRequest(url, request_body) ==
    [verb |-> "POST", url |-> url, params |-> EmptyDict, json |-> <<request_body>>]

\* outcome of one HTTP request: a response with a status and a body that is or
\* is not valid JSON, a timeout, or another transport failure
HttpResponse(status, valid, data) ==
    [kind |-> "response", status |-> status, valid |-> valid, data |-> data]
HttpTimeout == [kind |-> "timeout", status |-> 0, valid |-> FALSE, data |-> PyNone]
HttpError == [kind |-> "error", status |-> 0, valid |-> FALSE, data |-> PyNone]
\* the task is cancelled while the request is in flight
HttpCancelled == [kind |-> "cancelled", status |-> 0, valid |-> FALSE, data |-> PyNone]
NoReply == [kind |-> "none", status |-> 0, valid |-> FALSE, data |-> PyNone]

FailureOutcomes ==
    {HttpTimeout, HttpError,
     HttpResponse(500, TRUE, PyNone), HttpResponse(404, FALSE, PyNone),
     HttpResponse(200, FALSE, PyNone)}

----------------------------------------------------------------------------
(* Endpoint routing: _call_upstream up to the request it sends *)

\* str.replace("/api/mcp", "")
StripMcp(url) == SelectSeq(url, LAMBDA part : part # "/api/mcp")

\* a router that forwards the argument map whole
QueryParamsForwardAll(tool_args, keys) == tool_args

\* the chain  if "k" in tool_args: query_params["k"] = tool_args["k"]
QueryParams(tool_args, keys) ==
    [k \in (keys \cap DOMAIN tool_args) |-> tool_args[k]]

\* a fallback that forwards the reference alone
FallbackRequestNarrowed(url, method, params) ==
    PostRequest(url,
       [method |-> method,
        params |-> IF "arguments" \in DOMAIN params
                   THEN [params EXCEPT !["arguments"] = QueryParams(@, {"reference"})]
                   ELSE params])

\* the POST of {method, params} to the MCP endpoint  (lines 356-379)
FallbackRequest(url, method, params) ==
    PostRequest(url, [method |-> method, params |-> params])

\* a catalog request that forwards its params as the query
ListRequestWithParams(url, params) ==
    GetRequest(url \o <<"?method=tools/list">>, params)

\* self.client.get(f"{self.upstream_url}?method=tools/list")  (lines 239-243)
ListRequest(url, params) == GetRequest(url \o <<"?method=tools/list">>, EmptyDict)

\* the request _call_upstream sends for (method, params)
CallUpstreamRequest(url, method, params) ==
    LET tool_name == IF "name" \in DOMAIN params THEN params["name"] ELSE "None"
        tool_args == IF "arguments" \in DOMAIN params THEN params["arguments"] ELSE EmptyDict
        base_url == StripMcp(url)
        Api(path, keys) == GetRequest(base_url \o <<path>>, QueryParams(tool_args, keys))
        Fallback == FallbackRequest(url, method, params)
    IN  IF method = "tools/list" THEN ListRequest(url, params)
        ELSE IF method = "tools/call" THEN
            CASE tool_name = "fetch_scripture" ->
                    Api("/api/fetch-scripture", {"reference", "language", "organization"})
              [] tool_name = "fetch_translation_notes" ->
                    Api("/api/translation-notes", {"reference", "language", "organization"})
              [] tool_name = "fetch_translation_questions" ->
                    Api("/api/translation-questions", {"reference", "language", "organization"})
              [] tool_name \in {"get_translation_word", "fetch_translation_words"} ->
                    Api("/api/fetch-translation-words",
                        {"reference", "wordId", "language", "organization"})
              [] tool_name = "browse_translation_words" ->
                    Api("/api/browse-translation-words",
                        {"language", "organization", "category", "search", "limit"})
              [] tool_name = "get_context" ->
                    Api("/api/get-context", {"reference", "language", "organization"})
              [] tool_name = "extract_references" ->
                    Api("/api/extract-references", {"text", "includeContext"})
              [] OTHER -> Fallback
        ELSE Fallback

\* the exception the awaited HTTP request raises inside _call_upstream
AwaitRaises(outcome) ==
    CASE outcome.kind = "timeout" -> "TimeoutException"
      [] outcome.kind = "error" -> "ConnectError"
      [] outcome.kind = "cancelled" -> "CancelledError"
      [] OTHER -> ""

\* subclasses of Exception; asyncio.CancelledError derives from BaseException
IsException(exc) == exc # "CancelledError"

\* except clauses that catch everything raised at the await
CallUpstreamCatchesAll(exc) == TRUE

\* the except clauses of _call_upstream  (lines 394-399)
CallUpstreamCatches(exc) == exc = "TimeoutException" \/ IsException(exc)

\* _call_upstream from the outcome of its request on: the value it returns,
\* or the exception that leaves it
CallUpstream(outcome) ==
    LET exc == AwaitRaises(outcome)
    IN  IF exc # "" THEN
            IF CallUpstreamCatches(exc) THEN [raised |-> "", value |-> PyNone]
            ELSE [raised |-> exc, value |-> PyNone]
        ELSE IF outcome.status # 200 THEN [raised |-> "", value |-> PyNone]
        ELSE IF ~outcome.valid THEN [raised |-> "", value |-> PyNone]
        ELSE [raised |-> "", value |-> outcome.data]

\* except asyncio.CancelledError: raise  (lines 116-118, 228-230)
CallbackReraises(exc) == exc = "CancelledError"

----------------------------------------------------------------------------
(* Response normalisation: call_tool from the upstream payload to its blocks *)

TextContent(text) == [type |-> "text", text |-> text]

\* str(x) and json.dumps(x, indent=2) of a value: one fragment each
PyStr(v) == "str:" \o ToString(v)
JsonDumps(v) == "json:" \o ToString(v)

\* f"{v}" of a JSON value: a string is inserted as it is
Format(v) == IF v.t = "str" THEN v.s ELSE PyStr(v)

Returned(blocks) == [raised |-> "", blocks |-> blocks]
Raised(exc) == [raised |-> exc, blocks |-> <<>>]

\* d.get(k, default)
Get(d, k, default) == IF k \in DOMAIN d THEN d[k] ELSE default

\* d.get(k1) or d.get(k2) or ... or default, for string fields of an item
RECURSIVE FirstTruthy(_, _, _)
FirstTruthy(d, keys, default) ==
    IF keys = <<>> THEN default
    ELSE IF Get(d, Head(keys), "") # "" THEN d[Head(keys)]
    ELSE FirstTruthy(d, Tail(keys), default)

\* formatted_text += ... over a loop: the texts of the entries, joined
RECURSIVE JoinAll(_)
JoinAll(texts) ==
    IF texts = <<>> THEN <<>> ELSE Head(texts) \o JoinAll(Tail(texts))

\* iterating a truthy value that is not a list of objects raises: a number is
\* not iterable, a string or an object yields strings, which have no .get
IterationError(v) == IF v.t = "num" THEN "TypeError" ELSE "AttributeError"

\* arguments.get('reference', 'Reference')
ReferenceOf(arguments) == Get(arguments, "reference", "Reference")

\* a content branch that emits a block for every item, whatever its type
NormalizeContentAllItems(v) ==
    IF v.t = "list" THEN
        IF v.items = <<>>
        THEN Returned(<<TextContent(<<"Empty response">>)>>)
        ELSE Returned([k \in 1..Len(v.items) |-> TextContent(<<Get(v.items[k], "text", "")>>)])
    ELSE IF v.t = "str" /\ v.s = "" THEN Returned(<<TextContent(<<"Empty response">>)>>)
    ELSE IF v.t \in {"null", "num"} THEN Raised("TypeError")
    ELSE Raised("AttributeError")

\* "content" in response  (lines 146-152)
NormalizeContent(v) ==
    IF v.t = "list" THEN
        LET texts == SelectSeq(v.items, LAMBDA item : Get(item, "type", "") = "text")
        IN  IF \E k \in 1..Len(texts) : "text" \notin DOMAIN texts[k]
            THEN Raised("KeyError")
            ELSE IF texts = <<>>
            THEN Returned(<<TextContent(<<"Empty response">>)>>)
            ELSE Returned([k \in 1..Len(texts) |-> TextContent(<<texts[k]["text"]>>)])
    ELSE IF v.t = "str" /\ v.s = "" THEN Returned(<<TextContent(<<"Empty response">>)>>)
    ELSE IF v.t \in {"null", "num"} THEN Raised("TypeError")
    ELSE Raised("AttributeError")

\* an entry that appends the parenthesised translation even when it is empty
ScriptureEntryAlwaysTranslation(i, scripture) ==
    (IF i > 1 THEN <<"\n\n">> ELSE <<>>)
    \o <<Get(scripture, "text", "")>>
    \o <<" (", Get(scripture, "translation", ""), ")">>

\* "scripture" in response  (lines 154-171)
ScriptureEntry(i, scripture) ==
    (IF i > 1 THEN <<"\n\n">> ELSE <<>>)
    \o <<Get(scripture, "text", "")>>
    \o (IF Get(scripture, "translation", "") # ""
        THEN <<" (", scripture["translation"], ")">> ELSE <<>>)

NormalizeScripture(v) ==
    IF ~TruthyValue(v) THEN Returned(<<TextContent(<<"No scripture text found">>)>>)
    ELSE IF v.t # "list" THEN Raised(IterationError(v))
    ELSE Returned(<<TextContent(JoinAll([k \in 1..Len(v.items) |-> ScriptureEntry(k, v.items[k])]))>>)

\* a choice of the notes list by the first key present, empty or not
NotesValueFirstPresent(fields) ==
    IF "notes" \in DOMAIN fields THEN fields["notes"]
    ELSE IF "verseNotes" \in DOMAIN fields THEN fields["verseNotes"]
    ELSE Get(fields, "items", JList(<<>>))

\* response.get("notes") or response.get("verseNotes") or response.get("items", [])
NotesValue(fields) ==
    IF TruthyValue(Get(fields, "notes", JNull)) THEN fields["notes"]
    ELSE IF TruthyValue(Get(fields, "verseNotes", JNull)) THEN fields["verseNotes"]
    ELSE Get(fields, "items", JList(<<>>))

\* an entry numbered from the loop index, which starts at 0
NoteEntryZeroBased(i, note) ==
    <<ToString(i - 1), ". ",
      FirstTruthy(note, <<"Note", "note", "text", "content">>, PyStr(note)), "\n\n">>

\* the notes branch  (lines 173-183)
NoteEntry(i, note) ==
    <<ToString(i), ". ",
      FirstTruthy(note, <<"Note", "note", "text", "content">>, PyStr(note)), "\n\n">>

NormalizeNotes(v, arguments) ==
    IF ~TruthyValue(v)
    THEN Returned(<<TextContent(<<"No translation notes found for this reference.">>)>>)
    ELSE IF v.t # "list" THEN Raised(IterationError(v))
    ELSE Returned(<<TextContent(
            <<"Translation Notes for ", ReferenceOf(arguments), ":\n\n">>
            \o JoinAll([k \in 1..Len(v.items) |-> NoteEntry(k, v.items[k])]))>>)

\* "words" in response  (lines 185-196)
WordEntry(i, word) ==
    <<"**", FirstTruthy(word, <<"term", "name">>, "Unknown Term"), "**\n",
      FirstTruthy(word, <<"definition", "content">>, "No definition available"), "\n\n">>

\* a words branch that renders an empty list as the header line alone
NormalizeWordsHeaderAlways(v, arguments) ==
    IF v.t \notin {"list", "null"} THEN Raised(IterationError(v))
    ELSE Returned(<<TextContent(
            <<"Translation Words for ", ReferenceOf(arguments), ":\n\n">>
            \o (IF v.t = "null" THEN <<>>
                ELSE JoinAll([k \in 1..Len(v.items) |-> WordEntry(k, v.items[k])])))>>)

NormalizeWords(v, arguments) ==
    IF ~TruthyValue(v)
    THEN Returned(<<TextContent(<<"No translation words found for this reference.">>)>>)
    ELSE IF v.t # "list" THEN Raised(IterationError(v))
    ELSE Returned(<<TextContent(
            <<"Translation Words for ", ReferenceOf(arguments), ":\n\n">>
            \o JoinAll([k \in 1..Len(v.items) |-> WordEntry(k, v.items[k])]))>>)

\* "term" in response and "definition" in response  (lines 198-203)
NormalizeTerm(term, definition) ==
    Returned(<<TextContent(<<"**", Format(term), "**\n", Format(definition)>>)>>)

\* "questions" in response  (lines 205-216)
QuestionEntry(i, q) ==
    <<"Q", ToString(i), ": ", FirstTruthy(q, <<"question", "Question">>, "No question"),
      "\nA: ", FirstTruthy(q, <<"answer", "Answer">>, "No answer"), "\n\n">>

NormalizeQuestions(v, arguments) ==
    IF ~TruthyValue(v)
    THEN Returned(<<TextContent(<<"No translation questions found for this reference.">>)>>)
    ELSE IF v.t # "list" THEN Raised(IterationError(v))
    ELSE Returned(<<TextContent(
            <<"Translation Questions for ", ReferenceOf(arguments), ":\n\n">>
            \o JoinAll([k \in 1..Len(v.items) |-> QuestionEntry(k, v.items[k])]))>>)

\* "result" in response  (lines 218-221)
NormalizeResult(v) ==
    Returned(<<TextContent(<<IF v.t = "dict" THEN JsonDumps(v) ELSE Format(v)>>)>>)

\* the fallback  (lines 223-226)
NormalizeFallback(response) == Returned(<<TextContent(<<JsonDumps(response)>>)>>)

\* the chain with the scripture shape tested before the content shape
NormalizeScriptureFirst(response, arguments) ==
    LET f == response.fields
        Has(k) == k \in DOMAIN f
    IN  IF response.kind = "number" THEN Raised("TypeError")
        ELSE IF response.kind = "array" THEN NormalizeFallback(response)
        ELSE IF Has("scripture") THEN NormalizeScripture(f["scripture"])
        ELSE IF Has("content") THEN NormalizeContent(f["content"])
        ELSE IF Has("notes") \/ Has("verseNotes") \/ Has("items")
            THEN NormalizeNotes(NotesValue(f), arguments)
        ELSE IF Has("words") THEN NormalizeWords(f["words"], arguments)
        ELSE IF Has("term") /\ Has("definition") THEN NormalizeTerm(f["term"], f["definition"])
        ELSE IF Has("questions") THEN NormalizeQuestions(f["questions"], arguments)
        ELSE IF Has("result") THEN NormalizeResult(f["result"])
        ELSE NormalizeFallback(response)

\* the if/elif chain of call_tool over a truthy upstream response
Normalize(response, arguments) ==
    LET f == response.fields
        Has(k) == k \in DOMAIN f
    IN  IF response.kind = "number" THEN Raised("TypeError")
        ELSE IF response.kind = "array" THEN NormalizeFallback(response)
        ELSE IF Has("content") THEN NormalizeContent(f["content"])
        ELSE IF Has("scripture") THEN NormalizeScripture(f["scripture"])
        ELSE IF Has("notes") \/ Has("verseNotes") \/ Has("items")
            THEN NormalizeNotes(NotesValue(f), arguments)
        ELSE IF Has("words") THEN NormalizeWords(f["words"], arguments)
        ELSE IF Has("term") /\ Has("definition") THEN NormalizeTerm(f["term"], f["definition"])
        ELSE IF Has("questions") THEN NormalizeQuestions(f["questions"], arguments)
        ELSE IF Has("result") THEN NormalizeResult(f["result"])
        ELSE NormalizeFallback(response)


----------------------------------------------------------------------------
(* Tool catalog filter *)

\* an enabled check that takes an empty list for no list
IsToolEnabledUnlessEmpty(tool_name) ==
    IF enabled_tools.val = <<>> THEN TRUE
    ELSE tool_name \in Range(enabled_tools.val)

\* _is_tool_enabled
IsToolEnabled(tool_name) ==
    IF ~enabled_tools.some THEN TRUE
    ELSE tool_name \in Range(enabled_tools.val)

\* a validation that reports every enabled name once one of them is unknown
UnknownToolsAllEnabled(upstream_tools) ==
    IF ~enabled_tools.some THEN {}
    ELSE IF Range(enabled_tools.val)
              \subseteq {upstream_tools[k]["name"] : k \in 1..Len(upstream_tools)}
    THEN {}
    ELSE Range(enabled_tools.val)

\* _validate_enabled_tools: the names its ValueError lists (none: it returns)
UnknownTools(upstream_tools) ==
    IF ~enabled_tools.some THEN {}
    ELSE Range(enabled_tools.val) \ {upstream_tools[k]["name"] : k \in 1..Len(upstream_tools)}

\* Tool(name=..., description=..., inputSchema=tool_data.get("inputSchema", {}))
\* raises for an entry without a description; the entry is then skipped
ToolParses(tool_data) == "description" \in DOMAIN tool_data

Tool(tool_data) ==
    [name |-> tool_data["name"],
     description |-> tool_data["description"],
     inputSchema |-> Get(tool_data, "inputSchema", EmptyDict)]

\* a loop that skips nothing but the entries that do not parse
KeepToolUnfiltered(tool_data) == ToolParses(tool_data)

\* the loop of _get_filtered_tools over the upstream entries
KeepTool(tool_data) ==
    /\ ~(enabled_tools.some /\ tool_data["name"] \notin Range(enabled_tools.val))
    /\ ToolParses(tool_data)

FilterTools(upstream_tools) ==
    LET kept == SelectSeq(upstream_tools, KeepTool)
    IN  [k \in 1..Len(kept) |-> Tool(kept[k])]

NoFault == [raised |-> "", unknown |-> {}]

\* a _get_filtered_tools that validates before it looks for the catalog,
\* against an empty catalog when there is none
GetFilteredToolsValidateFirst(upstream_response) ==
    IF upstream_response.kind = "number"
    THEN [fault |-> [raised |-> "TypeError", unknown |-> {}], tools |-> <<>>, validated |-> FALSE]
    ELSE IF ~Truthy(upstream_response) \/ "tools" \notin DOMAIN upstream_response.fields
    THEN IF UnknownTools(<<>>) # {}
         THEN [fault |-> [raised |-> "ValueError", unknown |-> UnknownTools(<<>>)],
               tools |-> <<>>, validated |-> TRUE]
         ELSE [fault |-> NoFault, tools |-> <<>>, validated |-> TRUE]
    ELSE LET upstream_tools == upstream_response.fields["tools"]
         IN  IF upstream_tools.t # "list"
             THEN [fault |-> [raised |-> "TypeError", unknown |-> {}],
                   tools |-> <<>>, validated |-> ~enabled_tools.some]
             ELSE IF UnknownTools(upstream_tools.items) # {}
             THEN [fault |-> [raised |-> "ValueError",
                              unknown |-> UnknownTools(upstream_tools.items)],
                   tools |-> <<>>, validated |-> TRUE]
             ELSE [fault |-> NoFault, tools |-> FilterTools(upstream_tools.items),
                   validated |-> TRUE]

\* a _get_filtered_tools that validates until the validation has passed
\* once, and no more after that
GetFilteredToolsOnce(upstream_response) ==
    IF upstream_response.kind = "number"
    THEN [fault |-> [raised |-> "TypeError", unknown |-> {}], tools |-> <<>>, validated |-> FALSE]
    ELSE IF ~Truthy(upstream_response) \/ "tools" \notin DOMAIN upstream_response.fields
    THEN [fault |-> NoFault, tools |-> <<>>, validated |-> FALSE]
    ELSE LET upstream_tools == upstream_response.fields["tools"]
         IN  IF upstream_tools.t # "list"
             THEN [fault |-> [raised |-> "TypeError", unknown |-> {}],
                   tools |-> <<>>, validated |-> ~enabled_tools.some]
             ELSE IF ~validated_once /\ UnknownTools(upstream_tools.items) # {}
             THEN [fault |-> [raised |-> "ValueError",
                              unknown |-> UnknownTools(upstream_tools.items)],
                   tools |-> <<>>, validated |-> TRUE]
             ELSE [fault |-> NoFault, tools |-> FilterTools(upstream_tools.items),
                   validated |-> TRUE]

\* _get_filtered_tools on the response of its tools/list call:
\* what it raises, the tools it returns, and whether the validation ran
GetFilteredTools(upstream_response) ==
    IF upstream_response.kind = "number"
    THEN [fault |-> [raised |-> "TypeError", unknown |-> {}], tools |-> <<>>, validated |-> FALSE]
    ELSE IF ~Truthy(upstream_response) \/ "tools" \notin DOMAIN upstream_response.fields
    THEN [fault |-> NoFault, tools |-> <<>>, validated |-> FALSE]
    ELSE LET upstream_tools == upstream_response.fields["tools"]
         IN  IF upstream_tools.t # "list"
             THEN [fault |-> [raised |-> "TypeError", unknown |-> {}],
                   tools |-> <<>>, validated |-> ~enabled_tools.some]
             ELSE IF UnknownTools(upstream_tools.items) # {}
             THEN [fault |-> [raised |-> "ValueError",
                              unknown |-> UnknownTools(upstream_tools.items)],
                   tools |-> <<>>, validated |-> TRUE]
             ELSE [fault |-> NoFault, tools |-> FilterTools(upstream_tools.items),
                   validated |-> TRUE]

----------------------------------------------------------------------------
(* Parameter hiding and note filtering.  The proxy of this source tree has *)
(* neither (its tests use them); they follow the specification, and with   *)
(* the default configuration they change nothing.                          *)

\* hiddenParams empty, filterBookChapterNotes off
DefaultConfig == [hidden_params |-> {}, filter_book_chapter_notes |-> FALSE]

\* the sequence s without its members in S
RECURSIVE Without(_, _)
Without(s, S) ==
    IF s = <<>> THEN <<>>
    ELSE (IF Head(s) \in S THEN <<>> ELSE <<Head(s)>>) \o Without(Tail(s), S)

\* a hiding that forgets the required list
HideParamsInProperties(schema, hidden) ==
    [k \in DOMAIN schema |->
        IF k = "properties"
        THEN [p \in DOMAIN schema[k] \ hidden |-> schema[k][p]]
        ELSE schema[k]]

\* an inputSchema without the hidden parameters: they are removed from
\* properties and from required, all other fields stay
HideParams(schema, hidden) ==
    [k \in DOMAIN schema |->
        CASE k = "properties" -> [p \in DOMAIN schema[k] \ hidden |-> schema[k][p]]
          [] k = "required" -> Without(schema[k], hidden)
          [] OTHER -> schema[k]]

\* step (b) of the catalog filter: every kept tool with its schema hidden
HideToolParams(tools) ==
    [k \in 1..Len(tools) |->
        [tools[k] EXCEPT !.inputSchema = HideParams(@, config.hidden_params)]]

\* chapters of a book
MaxChapter == 3

\* a Reference of a book-level or chapter-level note: front:intro, {chapter}:intro
IsIntroReference(reference) ==
    reference \in {"front:intro"} \cup {ToString(c) \o ":intro" : c \in 1..MaxChapter}

IsIntroNote(item) == "Reference" \in DOMAIN item /\ IsIntroReference(item["Reference"])

\* a filter that drops the book-level notes alone
FilterBookNotes(tool_name, response) ==
    IF /\ config.filter_book_chapter_notes
       /\ tool_name = "fetch_translation_notes"
       /\ response.kind = "dict"
       /\ "items" \in DOMAIN response.fields
       /\ response.fields["items"].t = "list"
    THEN JDict([response.fields EXCEPT !["items"] =
                  JList(SelectSeq(@.items,
                          LAMBDA item : ~("Reference" \in DOMAIN item
                                          /\ item["Reference"] = "front:intro")))])
    ELSE response

\* the post-processing of a fetch_translation_notes response: with
\* filterBookChapterNotes the intro notes are dropped from items
FilterBookChapterNotes(tool_name, response) ==
    IF /\ config.filter_book_chapter_notes
       /\ tool_name = "fetch_translation_notes"
       /\ response.kind = "dict"
       /\ "items" \in DOMAIN response.fields
       /\ response.fields["items"].t = "list"
    THEN JDict([response.fields EXCEPT !["items"] =
                  JList(SelectSeq(@.items, LAMBDA item : ~IsIntroNote(item)))])
    ELSE response

----------------------------------------------------------------------------
(* The callbacks *)

Idle ==
    [kind |-> "none", pc |-> "idle", name |-> "", arguments |-> EmptyDict,
     method |-> "", params |-> EmptyDict, http |-> <<>>, reply |-> NoReply, response |-> PyNone,
     blocks |-> <<>>, tools |-> <<>>, fault |-> NoFault]

DisabledText(name) ==
    <<"Tool '", name, "' is disabled. Enable it with --enabled-tools option.">>

NoResponseText == <<"Error: No response from upstream server">>

ErrorText(name, exc) == <<"Error calling tool ", name, ": ", exc>>

\* call_tool without its except Exception clause: a fault in the
\* normalisation leaves the callback and no block is returned
CallToolBlocksUncaught(name, arguments, response) ==
    IF ~Truthy(response) THEN <<TextContent(NoResponseText)>>
    ELSE Normalize(response, arguments).blocks

\* call_tool after _call_upstream has returned response  (lines 142-235)
CallToolBlocks(name, arguments, response) ==
    IF ~Truthy(response) THEN <<TextContent(NoResponseText)>>
    ELSE LET n == Normalize(response, arguments)
         IN  IF n.raised # "" THEN <<TextContent(ErrorText(name, n.raised))>>
             ELSE n.blocks

\* call_tool that sends the request before it looks at the enabled list
CallToolStartUnchecked(name, arguments) ==
    [Idle EXCEPT !.kind = "call_tool", !.pc = "await", !.name = name,
                 !.arguments = arguments, !.method = "tools/call",
                 !.params = [name |-> name, arguments |-> arguments],
                 !.http = <<CallUpstreamRequest(upstream_url, "tools/call",
                             [name |-> name, arguments |-> arguments])>>]

\* call_tool(name, arguments) up to its suspension point  (lines 129-140):
\* the enabled check, then the request of _call_upstream("tools/call", ...)
CallToolStart(name, arguments) ==
    IF ~IsToolEnabled(name)
    THEN [Idle EXCEPT !.kind = "call_tool", !.pc = "done", !.name = name,
                      !.arguments = arguments,
                      !.blocks = <<TextContent(DisabledText(name))>>]
    ELSE [Idle EXCEPT !.kind = "call_tool", !.pc = "await", !.name = name,
                      !.arguments = arguments, !.method = "tools/call",
                      !.params = [name |-> name, arguments |-> arguments],
                      !.http = <<CallUpstreamRequest(upstream_url, "tools/call",
                                  [name |-> name, arguments |-> arguments])>>]

\* the transport invokes call_tool with a name and an argument map of the
\* given sets
CallTool(i, names, argmaps) ==
    /\ main.pc = "serving"
    /\ inv[i].pc = "idle"
    /\ \E name \in names, arguments \in argmaps :
          inv' = [inv EXCEPT ![i] = CallToolStart(name, arguments)]
    /\ UNCHANGED <<upstream_url, enabled_tools, validated_once, main, config>>

\* a call_tool that sends its request once more when the first one failed
CallToolResumeRetry(i, outcome) ==
    LET c == CallUpstream(outcome)
        u == [c EXCEPT !.value = FilterBookChapterNotes(inv[i].name, @)]
        retry == c.raised = "" /\ c.value = PyNone /\ Len(inv[i].http) = 1
    IN  /\ inv[i].kind = "call_tool"
        /\ inv[i].pc = "await"
        /\ inv' = [inv EXCEPT ![i] =
              IF retry
              THEN [@ EXCEPT !.http = @ \o @]
              ELSE IF u.raised = ""
              THEN [@ EXCEPT !.pc = "done", !.reply = outcome, !.response = u.value,
                             !.blocks = CallToolBlocks(inv[i].name, inv[i].arguments, u.value)]
              ELSE [@ EXCEPT !.pc = "cancelled", !.reply = outcome]]
        /\ UNCHANGED <<upstream_url, enabled_tools, validated_once, main, config>>

\* a call_tool invocation resumes from its await with outcome, and ends
CallToolResume(i, outcome) ==
    LET c == CallUpstream(outcome)
        u == [c EXCEPT !.value = FilterBookChapterNotes(inv[i].name, @)]
    IN  /\ inv[i].kind = "call_tool"
        /\ inv[i].pc = "await"
        /\ inv' = [inv EXCEPT ![i] =
              IF u.raised = ""
              THEN [@ EXCEPT !.pc = "done", !.reply = outcome, !.response = u.value,
                             !.blocks = CallToolBlocks(inv[i].name, inv[i].arguments, u.value)]
              ELSE IF CallbackReraises(u.raised)
              THEN [@ EXCEPT !.pc = "cancelled", !.reply = outcome]
              ELSE [@ EXCEPT !.pc = "done", !.reply = outcome,
                             !.blocks = <<TextContent(ErrorText(inv[i].name, u.raised))>>]]
        /\ UNCHANGED <<upstream_url, enabled_tools, validated_once, main, config>>

\* the HTTP request of a call_tool invocation ends with one of the outcomes
CallToolReply(i, outcomes) ==
    /\ inv[i].kind = "call_tool"
    /\ inv[i].pc = "await"
    /\ \E outcome \in outcomes :
          /\ outcome.kind # "cancelled"
          /\ CallToolResume(i, outcome)

\* a list_tools that answers from self._upstream_tools, without a request,
\* once a catalog was fetched
ListToolsFromCache(i) ==
    /\ main.pc = "serving"
    /\ inv[i].pc = "idle"
    /\ inv' = [inv EXCEPT ![i] =
          IF validated_once
          THEN [Idle EXCEPT !.kind = "list_tools", !.pc = "done", !.method = "tools/list"]
          ELSE [Idle EXCEPT !.kind = "list_tools", !.pc = "await", !.method = "tools/list",
                            !.http = <<CallUpstreamRequest(upstream_url, "tools/list",
                                                           EmptyDict)>>]]
    /\ UNCHANGED <<upstream_url, enabled_tools, validated_once, main, config>>

\* list_tools() up to its suspension point: the request of
\* _call_upstream('tools/list', {})
ListTools(i) ==
    /\ main.pc = "serving"
    /\ inv[i].pc = "idle"
    /\ inv' = [inv EXCEPT ![i] =
          [Idle EXCEPT !.kind = "list_tools", !.pc = "await", !.method = "tools/list",
                       !.http = <<CallUpstreamRequest(upstream_url, "tools/list",
                                                      EmptyDict)>>]]
    /\ UNCHANGED <<upstream_url, enabled_tools, validated_once, main, config>>

\* list_tools without its except Exception clause: what is raised inside
\* leaves the callback
ListToolsEndUncaught(fault, tools) ==
    IF fault.raised = "" THEN [pc |-> "done", tools |-> tools]
    ELSE IF CallbackReraises(fault.raised) THEN [pc |-> "cancelled", tools |-> <<>>]
    ELSE [pc |-> "raised", tools |-> <<>>]

\* the try statement of list_tools  (lines 105-123) around a body that
\* raised fault or came to return tools: how the callback ends
ListToolsEnd(fault, tools) ==
    IF fault.raised = "" THEN [pc |-> "done", tools |-> tools]
    ELSE IF CallbackReraises(fault.raised) THEN [pc |-> "cancelled", tools |-> <<>>]
    ELSE [pc |-> "done", tools |-> <<>>]

\* a list_tools invocation resumes from its await with outcome, and ends:
\* _get_filtered_tools runs on the response; list_tools returns its tools, or
\* [] when _get_filtered_tools raised
ListToolsResume(i, outcome) ==
    LET u == CallUpstream(outcome)
        g == GetFilteredTools(u.value)
        fault == IF u.raised # "" THEN [raised |-> u.raised, unknown |-> {}] ELSE g.fault
        end == ListToolsEnd(fault, g.tools)
    IN  /\ inv[i].kind = "list_tools"
        /\ inv[i].pc = "await"
        /\ inv' = [inv EXCEPT ![i] =
              IF end.pc = "cancelled"
              THEN [@ EXCEPT !.pc = "cancelled", !.reply = outcome]
              ELSE [@ EXCEPT !.pc = end.pc, !.reply = outcome,
                             !.response = IF u.raised = "" THEN u.value ELSE PyNone,
                             !.fault = fault, !.tools = HideToolParams(end.tools)]]
        /\ validated_once' =
              (validated_once
                 \/ (u.raised = "" /\ g.validated /\ enabled_tools.some /\ g.fault.raised = ""))
        /\ UNCHANGED <<upstream_url, enabled_tools, main, config>>

\* the HTTP request of a list_tools invocation ends with one of the outcomes
ListToolsReply(i, outcomes) ==
    /\ inv[i].kind = "list_tools"
    /\ inv[i].pc = "await"
    /\ \E outcome \in outcomes :
          /\ outcome.kind # "cancelled"
          /\ ListToolsResume(i, outcome)

\* the transport cancels an invocation whose request is in flight:
\* CancelledError is raised at its await
CancelCallTool(i) == CallToolResume(i, HttpCancelled)

CancelListTools(i) == ListToolsResume(i, HttpCancelled)

\* _call_upstream(method, params) called on the proxy directly, up to its
\* request
CallUpstreamDirect(i, methods, paramsets) ==
    /\ inv[i].pc = "idle"
    /\ \E method \in methods, params \in paramsets :
          inv' = [inv EXCEPT ![i] =
             [Idle EXCEPT !.kind = "_call_upstream", !.pc = "await",
                          !.method = method, !.params = params,
                          !.http = <<CallUpstreamRequest(upstream_url, method, params)>>]]
    /\ UNCHANGED <<upstream_url, enabled_tools, validated_once, main, config>>

\* the transport takes the outcome of an ended invocation
Return(i) ==
    /\ inv[i].pc \in {"done", "cancelled", "raised"}
    /\ inv' = [inv EXCEPT ![i] = Idle]
    /\ UNCHANGED <<upstream_url, enabled_tools, validated_once, main, config>>


----------------------------------------------------------------------------
(* The process: main() *)

\* sys.exit(code) / the exit status of the interpreter; Running: no exit yet
Running == [some |-> FALSE, val |-> 0]
ExitCode(code) == [some |-> TRUE, val |-> code]

\* httpx.AsyncClient objects: how many were created, and is_closed of the
\* proxy's one
NoClient == [created |-> 0, is_closed |-> FALSE]

\* self.client = httpx.AsyncClient(...) in MCPProxyServer.__init__
NewClient(client) == [created |-> client.created + 1, is_closed |-> FALSE]

\* a shutdown that leaves the client open
CloseClientNever(client) == client

\* if not proxy.client.is_closed: await proxy.client.aclose()
CloseClient(client) == [client EXCEPT !.is_closed = TRUE]

\* what test_connection returned: nothing yet, or a boolean
NotChecked == [some |-> FALSE, val |-> FALSE]
Checked(value) == [some |-> TRUE, val |-> value]

\* the process before main() has run
NotStarted ==
    [pc |-> "start", mode |-> "", http |-> <<>>,
     exit_code |-> Running, client |-> NoClient,
     reply |-> NoReply, connected |-> NotChecked]

\* the request of test_connection
PingRequest(url) == GetRequest(url \o <<"?method=ping">>, EmptyDict)

\* the process once server.run is serving the transport session
Serving ==
    [pc |-> "serving", mode |-> "serve", http |-> <<PingRequest(upstream_url)>>,
     exit_code |-> Running, client |-> NewClient(NoClient),
     reply |-> NoReply, connected |-> NotChecked]

\* str.strip() of one piece of the --enabled-tools value
Strip(piece) == IF piece = " fetch_scripture" THEN "fetch_scripture" ELSE piece

\* main: enabled_tools from args.enabled_tools  (absent or "": None;
\* otherwise the stripped pieces between the commas)
ParseEnabledTools(arg) ==
    IF ~arg.some \/ arg.val = <<"">> THEN PyNoneOpt
    ELSE Some([k \in 1..Len(arg.val) |-> Strip(arg.val[k])])

\* main() up to its first await.  With --list-tools: a temporary proxy
\* without tool list, and the request of _call_upstream('tools/list', {});
\* otherwise: the proxy with the parsed tool list, and the request of
\* test_connection
MainStart(flags, enabled_args) ==
    /\ main.pc = "start"
    /\ \E list_tools \in flags, arg \in enabled_args :
          IF list_tools
          THEN /\ enabled_tools' = PyNoneOpt
               /\ main' = [main EXCEPT !.pc = "discover", !.mode = "list_tools",
                                       !.client = NewClient(@),
                                       !.http = <<CallUpstreamRequest(upstream_url,
                                                     "tools/list", EmptyDict)>>]
          ELSE /\ enabled_tools' = ParseEnabledTools(arg)
               /\ main' = [main EXCEPT !.pc = "test_connection", !.mode = "serve",
                                       !.client = NewClient(@),
                                       !.http = <<PingRequest(upstream_url)>>]
    /\ UNCHANGED <<upstream_url, inv, validated_once, config>>

\* the --list-tools branch from the response of its tools/list call on:
\* the code it exits with  (lines 449-466)
DiscoverExit(u) ==
    IF u.raised # "" THEN IF u.raised = "CancelledError" THEN 0 ELSE 1
    ELSE IF u.value.kind = "number" THEN 1
    ELSE IF ~Truthy(u.value) \/ u.value.kind # "dict" THEN 1
    ELSE IF "tools" \notin DOMAIN u.value.fields THEN 1
    ELSE LET tools == u.value.fields["tools"]
         IN  IF tools.t # "list" THEN 1
             ELSE IF \E k \in 1..Len(tools.items) :
                        ~({"name", "description"} \subseteq DOMAIN tools.items[k])
             THEN 1
             ELSE 0

\* the tools/list request of the --list-tools branch ends: the tools are
\* printed or not, the client is closed in the finally clause, the process
\* exits
MainDiscoverReply(outcomes) ==
    /\ main.pc = "discover"
    /\ \E outcome \in outcomes :
          main' = [main EXCEPT !.pc = "exited",
                               !.exit_code = ExitCode(DiscoverExit(CallUpstream(outcome))),
                               !.client = CloseClient(@)]
    /\ UNCHANGED <<upstream_url, enabled_tools, inv, validated_once, config>>

\* a test_connection without its except clause
TestConnectionUncaught(outcome) ==
    LET exc == AwaitRaises(outcome)
    IN  IF exc # "" THEN [raised |-> exc, value |-> FALSE]
        ELSE [raised |-> "", value |-> outcome.status = 200]

\* test_connection from the outcome of its ping on: the boolean it returns,
\* or the exception that leaves it  (lines 401-414)
TestConnection(outcome) ==
    LET exc == AwaitRaises(outcome)
    IN  IF exc # "" THEN
            IF IsException(exc) THEN [raised |-> "", value |-> FALSE]
            ELSE [raised |-> exc, value |-> FALSE]
        ELSE [raised |-> "", value |-> outcome.status = 200]

\* the request of test_connection ends; test_connection returns to main, or
\* what it raises leaves main through the except and finally clauses
MainTestConnectionReply(outcomes) ==
    /\ main.pc = "test_connection"
    /\ \E outcome \in outcomes :
          LET t == TestConnection(outcome)
          IN  /\ outcome.kind # "cancelled"
              /\ main' = IF t.raised = ""
                         THEN [main EXCEPT !.pc = "checked", !.reply = outcome,
                                           !.connected = Checked(t.value)]
                         ELSE [main EXCEPT !.pc = "exited", !.reply = outcome,
                                           !.exit_code = ExitCode(1),
                                           !.client = CloseClient(@)]
    /\ UNCHANGED <<upstream_url, enabled_tools, inv, validated_once, config>>

\* main drops what test_connection returned and enters server.run
\* (lines 482-497)
MainRun ==
    /\ main.pc = "checked"
    /\ main' = [main EXCEPT !.pc = "serving", !.reply = NoReply,
                            !.connected = NotChecked]
    /\ UNCHANGED <<upstream_url, enabled_tools, inv, validated_once, config>>

\* how main's try block ends: server.run returns at the end of the session,
\* an Exception leaves it, or the main task is cancelled (KeyboardInterrupt)
Endings == {"returned", "Exception", "CancelledError"}

\* the exit status asyncio.run(main()) leads to in __main__
ExitStatus(ending) == IF ending = "Exception" THEN 1 ELSE 0

\* main's try block ends while it tests the connection or serves: the
\* finally clause closes the client, the process exits and its tasks are gone
MainEnd(endings) ==
    /\ main.pc \in {"test_connection", "serving"}
    /\ \E ending \in endings :
          /\ main.pc = "test_connection" => ending = "CancelledError"
          /\ main' = [main EXCEPT !.pc = "exited",
                                  !.exit_code = ExitCode(ExitStatus(ending)),
                                  !.client = CloseClient(@)]
    /\ inv' = [i \in Tasks |-> Idle]
    /\ UNCHANGED <<upstream_url, enabled_tools, validated_once, config>>

----------------------------------------------------------------------------
(* Inputs: configurations, tool calls, upstream outcomes *)

DefaultUrl == <<"https://translation-helps-mcp.pages.dev", "/api/mcp">>

UpstreamUrls == {DefaultUrl, <<"http://localhost:5173", "/mcp">>}

CatalogNames == {"fetch_scripture", "fetch_translation_notes"}

EnabledNames == CatalogNames \cup {"nonexistent_tool", "FETCH_SCRIPTURE"}

EnabledConfigs == {PyNoneOpt} \cup {Some(l) : l \in SeqsUpTo(EnabledNames, MaxEnabled)}

\* the names of the routing table, a name outside it, a name in another case
TableNames ==
    {"fetch_scripture", "fetch_translation_notes", "fetch_translation_questions",
     "get_translation_word", "fetch_translation_words", "browse_translation_words",
     "get_context", "extract_references"}

ToolNames == TableNames \cup {"custom_tool", "FETCH_SCRIPTURE"}

ArgKeys ==
    {"reference", "language", "organization", "wordId", "category", "search",
     "limit", "text", "includeContext", "bogus"}

ArgValues == {"John 3:16", "en"}

ArgMaps == DictsUpTo(ArgKeys, ArgValues, MaxArgs)

\* values of --enabled-tools: absent, empty, and comma-separated pieces
ArgPieces == {"fetch_scripture", " fetch_scripture", "nonexistent_tool"}

EnabledArgs ==
    {PyNoneOpt, Some(<<"">>)}
    \cup {Some(l) : l \in SeqsUpTo(ArgPieces, MaxEnabled) \ {<<>>}}

\* direct calls of _call_upstream: methods, and params with and without name
Methods == {"tools/call", "tools/list", "resources/list"}

DirectParams ==
    {[name |-> n, arguments |-> a] :
        n \in {"fetch_scripture", "custom_tool"},
        a \in {EmptyDict, [reference |-> "John 3:16"]}}
    \cup {[arguments |-> [reference |-> "John 3:16"]], EmptyDict}

\* the calls of a session
CallNames == {"fetch_scripture", "FETCH_SCRIPTURE", "custom_tool"}

CallArgs == {EmptyDict, [reference |-> "John 3:16"]}

\* upstream catalogs: entries with and without a description
CatalogEntries ==
    {[name |-> n, description |-> "upstream description"] : n \in CatalogNames}
    \cup {[name |-> n] : n \in CatalogNames}

Catalogs == SeqsUpTo(CatalogEntries, MaxCatalog)

ListPayloads ==
    {JDict([tools |-> JList(c)]) : c \in Catalogs}
    \cup {JDict([tools |-> JNull]), JDict([error |-> JStr("not found")]),
          JDict(EmptyDict), PyNone, JNumber, JArray}

Ok(payloads) == {HttpResponse(200, TRUE, p) : p \in payloads}

ListOutcomes == FailureOutcomes \cup Ok(ListPayloads)

\* input schemas of upstream tools: with and without hidden candidates, with
\* and without a required list, without properties
Schemas ==
    {[type |-> "object",
      properties |-> [reference |-> "string", language |-> "string",
                      organization |-> "string"],
      required |-> <<"reference", "language">>],
     [type |-> "object", properties |-> [text |-> "string"], required |-> <<"text">>],
     [type |-> "object", properties |-> [language |-> "string", Language |-> "string"]],
     [type |-> "object", required |-> <<"language">>]}

SchemaEntries ==
    {[name |-> n, description |-> "upstream description", inputSchema |-> schema] :
        n \in CatalogNames, schema \in Schemas}
    \cup {[name |-> "fetch_scripture", description |-> "upstream description"]}

SchemaOutcomes ==
    Ok({JDict([tools |-> JList(c)]) : c \in SeqsUpTo(SchemaEntries, MaxCatalog)})

HiddenParams == SUBSET {"language", "organization", "Language"}

\* notes of the items list: intro notes, verse notes, notes without Reference
ReferenceItems ==
    {[Reference |-> "front:intro", Note |-> "I1"], [Reference |-> "3:intro", Note |-> "I2"],
     [Reference |-> "3:16", Note |-> "I3"], [Reference |-> "intro", Note |-> "I4"],
     [Note |-> "I5"]}

NotesPayloads ==
    {JDict([items |-> JList(l), metadata |-> JStr("m"), reference |-> JStr("John 3:16")]) :
        l \in SeqsUpTo(ReferenceItems, MaxItems + 1)}
    \cup {JDict([items |-> JList(l)]) : l \in SeqsUpTo(ReferenceItems, MaxItems + 1)}
    \cup {JDict([items |-> JNull, metadata |-> JStr("m")]), JDict([metadata |-> JStr("m")])}

\* outcomes of concurrent invocations
ConcurrentCallOutcomes ==
    {HttpResponse(500, TRUE, PyNone)}
    \cup Ok({JDict([scripture |-> JList(<<[text |-> "T3"]>>)]), JDict([content |-> JNull])})

ConcurrentListOutcomes ==
    {HttpTimeout}
    \cup Ok({JDict([error |-> JStr("not found")])})
    \cup Ok({JDict([tools |-> JList(c)]) :
              c \in {<<[name |-> "fetch_scripture", description |-> "upstream description"]>>,
                     <<[name |-> "fetch_scripture", description |-> "upstream description"],
                       [name |-> "fetch_translation_notes",
                        description |-> "upstream description"]>>}})

\* outcomes of the ping of test_connection
PingOutcomes == FailureOutcomes \cup Ok({JDict(EmptyDict)})

\* payload values
Atoms == {JNull, JNum}

ListValues(Items) == {JList(l) : l \in SeqsUpTo(Items, MaxItems)} \cup Atoms

ContentItems ==
    {[type |-> "text", text |-> "T1"], [type |-> "text", text |-> "T2"],
     [type |-> "image"], [type |-> "text"]}

ScriptureItems ==
    {[text |-> "For God so loved the world...", translation |-> "ULT"],
     [text |-> "T2", translation |-> ""], [text |-> "T3"]}

NoteItems ==
    {[Note |-> "N1", note |-> "n1"], [Note |-> "", note |-> "n2"],
     [text |-> "t3"], [content |-> "c4"], [Reference |-> "3:16"]}

VerseNoteItems == {[note |-> "v1"]}

ItemsItems ==
    {[Reference |-> "front:intro", Note |-> "I1"], [Reference |-> "3:16", Note |-> "I2"]}

WordItems ==
    {[term |-> "grace", definition |-> "D1"], [name |-> "faith", content |-> "C2"],
     [term |-> ""]}

QuestionItems ==
    {[question |-> "Q1", answer |-> "A1"], [Question |-> "Q2", Answer |-> "A2"],
     EmptyDict}

ScalarValues == {JStr("love"), JStr(""), JNull, JNum, JObj}

\* payloads of one shape, with the values varied
ShapePayloads ==
    LET NV == ListValues(NoteItems)
        VV == ListValues(VerseNoteItems)
        IV == ListValues(ItemsItems)
    IN  {JDict([content |-> v]) : v \in ListValues(ContentItems) \cup {JStr("")}}
        \cup {JDict([scripture |-> v]) : v \in ListValues(ScriptureItems)}
        \cup {JDict([notes |-> a]) : a \in NV}
        \cup {JDict([verseNotes |-> b]) : b \in VV}
        \cup {JDict([items |-> c]) : c \in IV}
        \cup {JDict([notes |-> a, verseNotes |-> b]) : a \in NV, b \in VV}
        \cup {JDict([notes |-> a, items |-> c]) : a \in NV, c \in IV}
        \cup {JDict([verseNotes |-> b, items |-> c]) : b \in VV, c \in IV}
        \cup {JDict([notes |-> a, verseNotes |-> b, items |-> c]) :
                a \in NV, b \in VV, c \in IV}
        \cup {JDict([words |-> v]) : v \in ListValues(WordItems)}
        \cup {JDict([term |-> a, definition |-> b]) : a \in ScalarValues, b \in ScalarValues}
        \cup {JDict([questions |-> v]) : v \in ListValues(QuestionItems)}
        \cup {JDict([result |-> v]) : v \in ScalarValues}

ShapeKeys ==
    {"content", "scripture", "notes", "verseNotes", "items", "words", "term",
     "definition", "questions", "result"}

PayloadKeys == ShapeKeys \cup {"metadata"}

\* a value for key k: a filled one or an empty one
Sample(k, filled) ==
    CASE k = "content" -> JList(IF filled THEN <<[type |-> "text", text |-> "T1"]>> ELSE <<>>)
      [] k = "scripture" -> JList(IF filled THEN <<[text |-> "T3"]>> ELSE <<>>)
      [] k = "notes" -> JList(IF filled THEN <<[Note |-> "N1", note |-> "n1"]>> ELSE <<>>)
      [] k = "verseNotes" -> JList(IF filled THEN <<[note |-> "v1"]>> ELSE <<>>)
      [] k = "items" -> JList(IF filled THEN <<[Reference |-> "3:16", Note |-> "I2"]>> ELSE <<>>)
      [] k = "words" -> JList(IF filled THEN <<[term |-> "grace", definition |-> "D1"]>> ELSE <<>>)
      [] k = "questions" -> JList(IF filled THEN <<[question |-> "Q1", answer |-> "A1"]>> ELSE <<>>)
      [] OTHER -> JStr(IF filled THEN "love" ELSE "")

\* payloads with any set of the keys at once
KeyPayloads ==
    {JDict([k \in S |-> Sample(k, filled)]) : S \in SUBSET PayloadKeys, filled \in BOOLEAN}

Payloads == ShapePayloads \cup KeyPayloads \cup {PyNone, JNumber, JArray}

Outcomes == FailureOutcomes \cup Ok(Payloads)

\* the outcomes of the calls of a session
CallPayloads ==
    {JDict([scripture |-> JList(<<[text |-> "For God so loved the world...",
                                   translation |-> "ULT"]>>)]),
     JDict([content |-> JNull]), JDict(EmptyDict)}

CallOutcomes == FailureOutcomes \cup Ok(CallPayloads)

----------------------------------------------------------------------------
(* Specifications *)

\* a constructed proxy whose server runs the session
InitProxy ==
    /\ upstream_url \in UpstreamUrls
    /\ enabled_tools \in EnabledConfigs
    /\ inv = [i \in Tasks |-> Idle]
    /\ validated_once = FALSE
    /\ main = Serving

\* the proxy as main constructs it by default
Init ==
    /\ InitProxy
    /\ upstream_url = DefaultUrl
    /\ config = DefaultConfig

\* a session: the transport invokes, cancels and collects both callbacks
Next ==
    \/ \E i \in SessionTasks : CallTool(i, CallNames, CallArgs)
    \/ \E i \in SessionTasks : CallToolReply(i, CallOutcomes)
    \/ \E i \in SessionTasks : ListTools(i)
    \/ \E i \in SessionTasks : ListToolsReply(i, ListOutcomes)
    \/ \E i \in SessionTasks : CancelCallTool(i)
    \/ \E i \in SessionTasks : CancelListTools(i)
    \/ \E i \in SessionTasks : Return(i)

Spec == Init /\ [][Next]_vars

\* the router over every tool name and argument map
NextRouter ==
    \/ CallTool(1, ToolNames, ArgMaps)
    \/ CallUpstreamDirect(1, Methods, DirectParams)

\* the router under every upstream URL
InitRouter ==
    /\ InitProxy
    /\ config = DefaultConfig

SpecRouter == InitRouter /\ [][NextRouter]_vars

\* the normaliser over every payload
InitNormalizer ==
    /\ Init
    /\ upstream_url = DefaultUrl
    /\ Len(enabled_tools.val) <= 1

NextNormalizer ==
    \/ CallTool(1, {"fetch_translation_notes", "custom_tool"}, CallArgs)
    \/ CallToolReply(1, Outcomes)
    \/ CancelCallTool(1)

SpecNormalizer == InitNormalizer /\ [][NextNormalizer]_vars

\* the catalog filter with hidden parameters configured
InitHidden ==
    /\ InitProxy
    /\ upstream_url = DefaultUrl
    /\ enabled_tools \in {PyNoneOpt, Some(<<"fetch_translation_notes">>)}
    /\ config \in {[DefaultConfig EXCEPT !.hidden_params = hidden] : hidden \in HiddenParams}

NextHidden ==
    \/ ListTools(1)
    \/ ListToolsReply(1, SchemaOutcomes)
    \/ Return(1)

SpecHidden == InitHidden /\ [][NextHidden]_vars

\* fetch_translation_notes with and without the note filter
InitNotes ==
    /\ InitProxy
    /\ upstream_url = DefaultUrl
    /\ enabled_tools = PyNoneOpt
    /\ config \in {[DefaultConfig EXCEPT !.filter_book_chapter_notes = flag] :
                      flag \in BOOLEAN}

NextNotes ==
    \/ CallTool(1, {"fetch_translation_notes", "fetch_scripture"}, CallArgs)
    \/ CallToolReply(1, FailureOutcomes \cup Ok(NotesPayloads))
    \/ Return(1)

SpecNotes == InitNotes /\ [][NextNotes]_vars

\* concurrent invocations of both callbacks
InitConcurrent ==
    /\ Init
    /\ upstream_url = DefaultUrl
    /\ enabled_tools \in {PyNoneOpt, Some(<<"fetch_scripture">>),
                          Some(<<"fetch_scripture", "fetch_translation_notes">>)}

NextConcurrent ==
    \/ \E i \in Tasks : CallTool(i, {"fetch_scripture", "custom_tool"}, {EmptyDict})
    \/ \E i \in Tasks : CallToolReply(i, ConcurrentCallOutcomes)
    \/ \E i \in Tasks : ListTools(i)
    \/ \E i \in Tasks : ListToolsReply(i, ConcurrentListOutcomes)
    \/ \E i \in Tasks : Return(i)

SpecConcurrent == InitConcurrent /\ [][NextConcurrent]_vars

\* the whole process: main() from its start to the exit, and the session
\* it serves
InitMain ==
    /\ upstream_url \in UpstreamUrls
    /\ enabled_tools = PyNoneOpt
    /\ inv = [i \in Tasks |-> Idle]
    /\ validated_once = FALSE
    /\ main = NotStarted
    /\ config = DefaultConfig

NextMain ==
    \/ MainStart(BOOLEAN, EnabledArgs)
    \/ MainDiscoverReply(ListOutcomes \cup {HttpCancelled})
    \/ MainTestConnectionReply(PingOutcomes)
    \/ MainRun
    \/ MainEnd(Endings)
    \/ Next

SpecMain == InitMain /\ [][NextMain]_vars


----------------------------------------------------------------------------
(* Properties *)

Calls == {i \in Tasks : inv[i].kind = "call_tool"}
Lists == {i \in Tasks : inv[i].kind = "list_tools"}

\* the routing table as documented: path and admitted query parameters
DocumentedRoutes ==
    [name \in TableNames |->
       CASE name = "fetch_scripture" ->
              [path |-> "/api/fetch-scripture",
               admitted |-> {"reference", "language", "organization"}]
         [] name = "fetch_translation_notes" ->
              [path |-> "/api/translation-notes",
               admitted |-> {"reference", "language", "organization"}]
         [] name = "fetch_translation_questions" ->
              [path |-> "/api/translation-questions",
               admitted |-> {"reference", "language", "organization"}]
         [] name \in {"get_translation_word", "fetch_translation_words"} ->
              [path |-> "/api/fetch-translation-words",
               admitted |-> {"reference", "wordId", "language", "organization"}]
         [] name = "browse_translation_words" ->
              [path |-> "/api/browse-translation-words",
               admitted |-> {"language", "organization", "category", "search", "limit"}]
         [] name = "get_context" ->
              [path |-> "/api/get-context",
               admitted |-> {"reference", "language", "organization"}]
         [] name = "extract_references" ->
              [path |-> "/api/extract-references",
               admitted |-> {"text", "includeContext"}]]

\* the base of the upstream URL: the URL without its "/api/mcp" part
BaseUrl ==
    IF upstream_url = DefaultUrl THEN <<"https://translation-helps-mcp.pages.dev">>
    ELSE upstream_url

\* C1: a dispatched call of a tool of the routing table has issued exactly one
\* request, a GET without body to the documented path of the tool under the
\* base URL, whose query parameters are exactly the argument keys that are
\* admitted for the tool and present in the arguments, each with the
\* argument's value; every other argument key is dropped.
C1_RouterForwardsAdmittedKeys ==
    \A i \in Calls :
        (inv[i].pc = "await" /\ inv[i].name \in TableNames) =>
            LET route == DocumentedRoutes[inv[i].name]
                arguments == inv[i].arguments
            IN  /\ Len(inv[i].http) = 1
                /\ inv[i].http[1].verb = "GET"
                /\ inv[i].http[1].json = NoBody
                /\ inv[i].http[1].url = BaseUrl \o <<route.path>>
                /\ DOMAIN inv[i].http[1].params = route.admitted \cap DOMAIN arguments
                /\ \A k \in DOMAIN inv[i].http[1].params :
                      inv[i].http[1].params[k] = arguments[k]

\* C1 witness: fetch_scripture called with reference and bogus has sent
\* reference alone
C1_Witness ==
    \E i \in Calls :
        /\ inv[i].pc = "await"
        /\ inv[i].name = "fetch_scripture"
        /\ inv[i].arguments = [reference |-> "John 3:16", bogus |-> "en"]
        /\ inv[i].http[1].params = [reference |-> "John 3:16"]

\* C2: a call_tool invocation that has ended was cancelled exactly when its
\* request was cancelled, and otherwise returned a non-empty sequence of
\* blocks, each of type "text".
C2_CallToolReturnsTextBlocks ==
    \A i \in Calls :
        inv[i].pc \notin {"idle", "await"} =>
            IF inv[i].reply.kind = "cancelled" THEN inv[i].pc = "cancelled"
            ELSE /\ inv[i].pc = "done"
                 /\ inv[i].blocks # <<>>
                 /\ \A k \in 1..Len(inv[i].blocks) : inv[i].blocks[k].type = "text"

\* C2 witness: a payload whose normalisation faults (content: null) has been
\* answered with one text block
C2_Witness ==
    \E i \in Calls :
        /\ inv[i].pc = "done"
        /\ inv[i].response = JDict([content |-> JNull])
        /\ Len(inv[i].blocks) = 1
        /\ inv[i].blocks[1].type = "text"

\* the keys of the first shape, in the documented order, that the payload
\* fields f match; all keys of f when no shape matches
WinningKeys(f) ==
    LET K == DOMAIN f
    IN  IF "content" \in K THEN {"content"}
        ELSE IF "scripture" \in K THEN {"scripture"}
        ELSE IF K \cap {"notes", "verseNotes", "items"} # {}
            THEN K \cap {"notes", "verseNotes", "items"}
        ELSE IF "words" \in K THEN {"words"}
        ELSE IF {"term", "definition"} \subseteq K THEN {"term", "definition"}
        ELSE IF "questions" \in K THEN {"questions"}
        ELSE IF "result" \in K THEN {"result"}
        ELSE K

\* C3: the blocks of a normalised payload are those of the payload cut down
\* to the keys of the first shape it matches in the order content, scripture,
\* notes|verseNotes|items, words, term+definition, questions, result,
\* fallback; in particular a payload with the key content is normalised by
\* its content alone.
C3_FirstMatchingShapeWins ==
    \A i \in Calls :
        (inv[i].pc = "done" /\ inv[i].response.kind = "dict" /\ Truthy(inv[i].response)) =>
            LET f == inv[i].response.fields
                cut == JDict([k \in WinningKeys(f) |-> f[k]])
            IN  /\ inv[i].blocks = CallToolBlocks(inv[i].name, inv[i].arguments, cut)
                /\ ("content" \in DOMAIN f /\ f["content"] = Sample("content", TRUE))
                      => inv[i].blocks = <<TextContent(<<"T1">>)>>
                /\ ("content" \in DOMAIN f /\ f["content"] = Sample("content", FALSE))
                      => inv[i].blocks = <<TextContent(<<"Empty response">>)>>

\* C3 witness: a payload with content, scripture, words and result has been
\* normalised to the text of its content
C3_Witness ==
    \E i \in Calls :
        /\ inv[i].pc = "done"
        /\ DOMAIN inv[i].response.fields = {"content", "scripture", "words", "result"}
        /\ inv[i].response.fields["scripture"] = Sample("scripture", TRUE)
        /\ inv[i].blocks = <<TextContent(<<"T1">>)>>

\* C4: a call_tool invocation of a name that is not enabled has issued no
\* upstream request, and has returned exactly one text block that names the
\* tool and says that it is disabled and how to enable it.
C4_DisabledToolShortCircuits ==
    \A i \in Calls :
        (enabled_tools.some /\ inv[i].name \notin Range(enabled_tools.val)) =>
            /\ inv[i].http = <<>>
            /\ inv[i].pc = "done"
            /\ inv[i].blocks =
                 <<[type |-> "text",
                    text |-> <<"Tool '", inv[i].name,
                               "' is disabled. Enable it with --enabled-tools option.">>]>>

\* C4 witness: with fetch_translation_notes alone enabled, fetch_scripture
\* has been called
C4_Witness ==
    \E i \in Calls :
        /\ enabled_tools = Some(<<"fetch_translation_notes">>)
        /\ inv[i].name = "fetch_scripture"
        /\ inv[i].pc = "done"
        /\ inv[i].http = <<>>


\* a text that reports an error
IsErrorText(text) ==
    text # <<>> /\ text[1] \in {"Error: No response from upstream server", "Error calling tool "}

\* C5: when the upstream call of an enabled tool has failed (non-200 status,
\* timeout, transport failure, invalid JSON), call_tool has returned exactly
\* one text block, which contains the name of the tool and an error
\* indication.
C5_UpstreamFailureNamesTool ==
    \A i \in Calls :
        (inv[i].pc = "done" /\ inv[i].reply \in FailureOutcomes) =>
            /\ Len(inv[i].blocks) = 1
            /\ inv[i].blocks[1].type = "text"
            /\ IsErrorText(inv[i].blocks[1].text)
            /\ inv[i].name \in Range(inv[i].blocks[1].text)

\* C6: an invocation of call_tool or list_tools whose request was cancelled
\* in flight has ended as cancelled: it has returned no block and no tool
\* list, and no failure was recorded in place of the cancellation.
C6_CancellationPropagates ==
    \A i \in Tasks :
        inv[i].reply.kind = "cancelled" =>
            /\ inv[i].pc = "cancelled"
            /\ inv[i].blocks = <<>>
            /\ inv[i].tools = <<>>
            /\ inv[i].fault = NoFault

\* C6 witness: a call_tool invocation, request sent, has been cancelled
C6_Witness ==
    \E i \in Calls :
        /\ inv[i].pc = "cancelled"
        /\ Len(inv[i].http) = 1
        /\ inv[i].reply = HttpCancelled

\* name is an exact member of the enabled list
ExactMember(name) ==
    \E k \in 1..Len(enabled_tools.val) : enabled_tools.val[k] = name

\* C7: is_enabled(name) is true exactly when enabledTools is unset or name is
\* an exact, case-sensitive member of it: with the empty list it is false
\* for every name, unset it is true for every name; and a call went to the
\* upstream exactly when its name was enabled in this sense.
C7_IsEnabledIffUnsetOrMember ==
    /\ \A name \in ToolNames \cup EnabledNames :
          IsToolEnabled(name) <=> (~enabled_tools.some \/ ExactMember(name))
    /\ enabled_tools = Some(<<>>) => \A name \in ToolNames : ~IsToolEnabled(name)
    /\ enabled_tools = PyNoneOpt => \A name \in ToolNames : IsToolEnabled(name)
    /\ \A i \in Calls :
          (inv[i].http # <<>>) <=> (~enabled_tools.some \/ ExactMember(inv[i].name))

\* C7 witness: with fetch_scripture alone enabled, a call of FETCH_SCRIPTURE
\* was refused
C7_Witness ==
    \E i \in Calls :
        /\ enabled_tools = Some(<<"fetch_scripture">>)
        /\ inv[i].name = "FETCH_SCRIPTURE"
        /\ inv[i].pc = "done"
        /\ inv[i].http = <<>>

\* the list invocations whose catalog fetch gave a catalog
Fetched == {i \in Lists : /\ inv[i].pc = "done"
                          /\ inv[i].response.kind = "dict"
                          /\ "tools" \in DOMAIN inv[i].response.fields
                          /\ inv[i].response.fields["tools"].t = "list"}

CatalogOf(i) == inv[i].response.fields["tools"].items

IsEnabledName(name) == ~enabled_tools.some \/ ExactMember(name)

\* the entries of a catalog that are enabled, in the catalog's order
RECURSIVE EnabledEntries(_)
EnabledEntries(catalog) ==
    IF catalog = <<>> THEN <<>>
    ELSE (IF IsEnabledName(Head(catalog)["name"]) THEN <<Head(catalog)>> ELSE <<>>)
         \o EnabledEntries(Tail(catalog))

\* the entries of a catalog that are enabled and carry a description
RECURSIVE ListedEntries(_)
ListedEntries(catalog) ==
    IF catalog = <<>> THEN <<>>
    ELSE (IF IsEnabledName(Head(catalog)["name"]) /\ "description" \in DOMAIN Head(catalog)
          THEN <<Head(catalog)>> ELSE <<>>)
         \o ListedEntries(Tail(catalog))

\* C8 as stated: after a successful fetch and validation the returned list
\* has exactly one tool for each upstream entry whose name is enabled, in the
\* upstream order, none added, dropped or re-ordered.
C8_ListMirrorsEnabledCatalog ==
    \A i \in Fetched :
        inv[i].fault.raised = "" =>
            /\ Len(inv[i].tools) = Len(EnabledEntries(CatalogOf(i)))
            /\ \A k \in 1..Len(inv[i].tools) :
                  inv[i].tools[k].name = EnabledEntries(CatalogOf(i))[k]["name"]

\* C8 amended: after a successful fetch and validation the returned list has
\* exactly one tool, with the entry's name and description, for each
\* upstream entry whose name is enabled and from which a Tool can be built
\* (here: that carries a description), in the upstream order; an enabled
\* entry that does not parse is skipped.  Hence with no list set and a
\* catalog of well-formed entries the names and the count are the
\* catalog's, and with the empty list the result is empty.
C8_ListMirrorsParsedEnabledCatalog ==
    \A i \in Fetched :
        inv[i].fault.raised = "" =>
            LET listed == ListedEntries(CatalogOf(i))
            IN  /\ Len(inv[i].tools) = Len(listed)
                /\ \A k \in 1..Len(listed) :
                      /\ inv[i].tools[k].name = listed[k]["name"]
                      /\ inv[i].tools[k].description = listed[k]["description"]
                /\ (~enabled_tools.some
                      /\ \A k \in 1..Len(CatalogOf(i)) : "description" \in DOMAIN CatalogOf(i)[k])
                      => /\ Len(inv[i].tools) = Len(CatalogOf(i))
                         /\ \A k \in 1..Len(CatalogOf(i)) :
                               inv[i].tools[k].name = CatalogOf(i)[k]["name"]
                /\ enabled_tools = Some(<<>>) => inv[i].tools = <<>>

\* C8 witness: of the catalog fetch_scripture, fetch_translation_notes the
\* second alone is enabled, and it alone was listed
C8_Witness ==
    \E i \in Fetched :
        /\ enabled_tools = Some(<<"fetch_translation_notes">>)
        /\ Len(CatalogOf(i)) = 2
        /\ CatalogOf(i)[1] = [name |-> "fetch_scripture", description |-> "upstream description"]
        /\ CatalogOf(i)[2]["name"] = "fetch_translation_notes"
        /\ Len(inv[i].tools) = 1
        /\ inv[i].tools[1].name = "fetch_translation_notes"

\* the enabled names that are no tool name of the catalog
UnknownNames(catalog) ==
    {name \in EnabledNames : ExactMember(name)
                             /\ \A k \in 1..Len(catalog) : catalog[k]["name"] # name}

\* C9: on a fetched catalog with enabledTools set, the catalog filter fails
\* with the ValueError 'Unknown tools specified' exactly when an enabled
\* name is no tool name of the catalog, and the error then names every such
\* name and no other.
C9_UnknownEnabledToolsRejected ==
    \A i \in Fetched :
        enabled_tools.some =>
            IF UnknownNames(CatalogOf(i)) # {}
            THEN inv[i].fault = [raised |-> "ValueError", unknown |-> UnknownNames(CatalogOf(i))]
            ELSE inv[i].fault.raised # "ValueError"

\* C9 witness: fetch_scripture and nonexistent_tool are enabled, the catalog
\* has fetch_scripture, and the error names nonexistent_tool
C9_Witness ==
    \E i \in Fetched :
        /\ enabled_tools = Some(<<"fetch_scripture", "nonexistent_tool">>)
        /\ \E k \in 1..Len(CatalogOf(i)) : CatalogOf(i)[k]["name"] = "fetch_scripture"
        /\ inv[i].fault = [raised |-> "ValueError", unknown |-> {"nonexistent_tool"}]

\* C10: once the validation of the enabled tools has succeeded, no later
\* list call fails with the unknown-tools error.
C10_ValidationNotRepeated ==
    [][validated_once =>
         \A i \in Tasks :
             inv'[i].fault.raised = "ValueError" => inv[i].fault.raised = "ValueError"]_vars

\* the list invocations that have ended
ListsEnded == {i \in Lists : inv[i].pc \notin {"idle", "await"}}

\* the fetch of a list invocation gave no usable catalog: the upstream call
\* failed, or its response has no tools key
NoCatalog(i) ==
    \/ inv[i].reply \in FailureOutcomes
    \/ inv[i].response = PyNone
    \/ inv[i].response.kind = "dict" /\ "tools" \notin DOMAIN inv[i].response.fields

\* C11: a list_tools invocation that has ended and was not cancelled has
\* returned a tool list, never raised; the list is empty when the upstream
\* call failed, when the response has no tools key, when the validation of
\* the enabled tools failed, and when any other fault occurred inside.
C11_ListToolsNeverPropagates ==
    \A i \in ListsEnded :
        /\ inv[i].pc = "cancelled" <=> inv[i].reply.kind = "cancelled"
        /\ inv[i].pc # "cancelled" =>
              /\ inv[i].pc = "done"
              /\ (NoCatalog(i) \/ inv[i].fault.raised # "") => inv[i].tools = <<>>

\* C11 witness: the validation has failed on a catalog that has an enabled
\* tool, and the empty list was returned
C11_Witness ==
    \E i \in Fetched :
        /\ enabled_tools = Some(<<"fetch_scripture", "nonexistent_tool">>)
        /\ CatalogOf(i) = <<[name |-> "fetch_scripture", description |-> "upstream description"]>>
        /\ inv[i].fault.raised = "ValueError"
        /\ inv[i].pc = "done"
        /\ inv[i].tools = <<>>
\* C12: whenever a tool call has been routed to the upstream, enabledTools,
\* when set, has only tool names of the upstream catalog (the catalogs of
\* the upstream carry names of CatalogNames): a configuration with another
\* name was rejected at startup and serves no call.
C12_RoutedCallsHaveKnownEnabledTools ==
    \A i \in Calls :
        (inv[i].http # <<>> /\ enabled_tools.some) =>
            Range(enabled_tools.val) \subseteq CatalogNames

\* C13: a process whose allow-list has a name unknown to the upstream
\* catalog does not keep serving with an empty tool list: once a list call
\* has met the unknown name and ended, the process has exited with code 1.
C13_UnknownEnabledToolIsFatal ==
    \A i \in Fetched :
        inv[i].fault.raised = "ValueError" =>
            /\ main.pc = "exited"
            /\ main.exit_code = ExitCode(1)
\* the schema an upstream entry carries
SchemaOf(entry) == IF "inputSchema" \in DOMAIN entry THEN entry["inputSchema"] ELSE <<>>

\* the names of s that are not hidden, in the order of s
RECURSIVE Visible(_)
Visible(s) ==
    IF s = <<>> THEN <<>>
    ELSE IF Head(s) \in config.hidden_params THEN Visible(Tail(s))
    ELSE <<Head(s)>> \o Visible(Tail(s))

\* C14: every listed tool's inputSchema is the upstream entry's schema with
\* each hidden parameter name removed from properties and from required
\* (exact match), every other property and schema field unchanged; a tool
\* that declares no hidden parameter keeps its schema, and with hiddenParams
\* empty nothing is removed.
C14_HiddenParamsRemoved ==
    \A i \in Fetched :
        inv[i].fault.raised = "" =>
            LET listed == ListedEntries(CatalogOf(i))
            IN  /\ Len(inv[i].tools) = Len(listed)
                /\ \A k \in 1..Len(listed) :
                      LET given == SchemaOf(listed[k])
                          out == inv[i].tools[k].inputSchema
                          declared == (IF "properties" \in DOMAIN given
                                       THEN DOMAIN given["properties"] ELSE {})
                                      \cup (IF "required" \in DOMAIN given
                                            THEN Range(given["required"]) ELSE {})
                      IN  /\ DOMAIN out = DOMAIN given
                          /\ \A f \in DOMAIN given \ {"properties", "required"} : out[f] = given[f]
                          /\ "properties" \in DOMAIN given =>
                                /\ DOMAIN out["properties"]
                                      = DOMAIN given["properties"] \ config.hidden_params
                                /\ \A q \in DOMAIN out["properties"] :
                                      out["properties"][q] = given["properties"][q]
                          /\ "required" \in DOMAIN given =>
                                out["required"] = Visible(given["required"])
                          /\ declared \cap config.hidden_params = {} => out = given

\* C14 witness: with language and organization hidden, a tool that declares
\* reference, language and organization and requires reference and language
\* is listed with reference alone
C14_Witness ==
    \E i \in Fetched :
        /\ config.hidden_params = {"language", "organization"}
        /\ Len(inv[i].tools) = 1
        /\ Len(CatalogOf(i)) = 1
        /\ "properties" \in DOMAIN SchemaOf(CatalogOf(i)[1])
        /\ DOMAIN SchemaOf(CatalogOf(i)[1])["properties"]
              = {"reference", "language", "organization"}
        /\ inv[i].tools[1].inputSchema =
              [type |-> "object", properties |-> [reference |-> "string"],
               required |-> <<"reference">>]

\* the notes of s that are no intro notes, in the order of s
RECURSIVE VerseNotes(_)
VerseNotes(s) ==
    IF s = <<>> THEN <<>>
    ELSE IF "Reference" \in DOMAIN Head(s)
            /\ Head(s)["Reference"] \in {"front:intro", "1:intro", "2:intro", "3:intro"}
         THEN VerseNotes(Tail(s))
         ELSE <<Head(s)>> \o VerseNotes(Tail(s))

\* the calls that have received a JSON object from the upstream
Answered == {i \in Calls : /\ inv[i].pc = "done"
                           /\ inv[i].reply.kind = "response"
                           /\ inv[i].reply.status = 200 /\ inv[i].reply.valid
                           /\ inv[i].reply.data.kind = "dict"}

\* C15: with filterBookChapterNotes, the payload of a fetch_translation_notes
\* call is the upstream payload with every item whose Reference is
\* front:intro or {chapter}:intro removed from items, the other items in
\* their order and all other fields unchanged; without the flag, and for
\* other tools, the payload is the upstream payload.
C15_IntroNotesFiltered ==
    \A i \in Answered :
        LET data == inv[i].reply.data.fields
            payload == inv[i].response.fields
        IN  IF /\ config.filter_book_chapter_notes
               /\ inv[i].name = "fetch_translation_notes"
               /\ "items" \in DOMAIN data
               /\ data["items"].t = "list"
            THEN /\ DOMAIN payload = DOMAIN data
                 /\ \A f \in DOMAIN data \ {"items"} : payload[f] = data[f]
                 /\ payload["items"] = JList(VerseNotes(data["items"].items))
            ELSE inv[i].response = inv[i].reply.data

\* C15 witness: of the items front:intro, 3:intro, 3:16 of the upstream the
\* call is left with 3:16, and with its metadata
C15_Witness ==
    \E i \in Answered :
        /\ config.filter_book_chapter_notes
        /\ inv[i].name = "fetch_translation_notes"
        /\ DOMAIN inv[i].reply.data.fields = {"items", "metadata", "reference"}
        /\ inv[i].reply.data.fields["items"].items =
              <<[Reference |-> "front:intro", Note |-> "I1"],
                [Reference |-> "3:intro", Note |-> "I2"],
                [Reference |-> "3:16", Note |-> "I3"]>>
        /\ inv[i].response.fields["items"].items = <<[Reference |-> "3:16", Note |-> "I3"]>>
        /\ inv[i].response.fields["metadata"] = JStr("m")
\* the names of the tools of a list
Names(tools) == [k \in 1..Len(tools) |-> tools[k]["name"]]

\* the names a list call returns when it runs alone on the catalog it has
\* fetched: none when an enabled name is unknown, else those of the enabled
\* entries that parse
NamesFrom(catalog) ==
    IF enabled_tools.some /\ UnknownNames(catalog) # {} THEN <<>>
    ELSE Names(ListedEntries(catalog))

\* C16: the catalog is never cached: every list_tools invocation has issued
\* one request of its own, GET {upstream_url}?method=tools/list, and the list
\* it returns is computed from the response to that request alone, whatever
\* list calls came before.
C16_CatalogNeverCached ==
    \A i \in Lists :
        /\ inv[i].http = <<[verb |-> "GET", url |-> upstream_url \o <<"?method=tools/list">>,
                             params |-> EmptyDict, json |-> NoBody]>>
        /\ inv[i].pc = "done" =>
              Names(inv[i].tools) = IF i \in Fetched THEN NamesFrom(CatalogOf(i)) ELSE <<>>

\* C16 witness: after a list call that found fetch_scripture and
\* fetch_translation_notes in the catalog, a list call has fetched a catalog
\* with fetch_scripture alone and has listed nothing
C16_Witness ==
    \E i \in Fetched :
        /\ validated_once
        /\ enabled_tools = Some(<<"fetch_scripture", "fetch_translation_notes">>)
        /\ CatalogOf(i) = <<[name |-> "fetch_scripture", description |-> "upstream description"]>>
        /\ Len(inv[i].http) = 1
        /\ inv[i].tools = <<>>

\* C17: a call_tool invocation has issued one upstream request when its
\* tool is enabled and none when it is disabled; a request that failed
\* (non-200, timeout, transport error, invalid JSON) was not sent again, and
\* the invocation has ended with the failure after that one attempt.
C17_SingleRequestNoRetry ==
    \A i \in Calls :
        /\ Len(inv[i].http) = IF IsEnabledName(inv[i].name) THEN 1 ELSE 0
        /\ inv[i].reply \in FailureOutcomes =>
              /\ inv[i].pc = "done"
              /\ inv[i].response = PyNone
              /\ inv[i].blocks = <<[type |-> "text",
                                    text |-> <<"Error: No response from upstream server">>]>>

\* C17 witness: a call of fetch_scripture whose request timed out has ended
\* after one request
C17_Witness ==
    \E i \in Calls :
        /\ inv[i].name = "fetch_scripture"
        /\ inv[i].reply = HttpTimeout
        /\ inv[i].pc = "done"
        /\ Len(inv[i].http) = 1

\* the blocks a call returns when it runs alone with its reply
BlocksAlone(i) ==
    IF ~IsEnabledName(inv[i].name)
    THEN <<[type |-> "text",
            text |-> <<"Tool '", inv[i].name,
                       "' is disabled. Enable it with --enabled-tools option.">>]>>
    ELSE CallToolBlocks(inv[i].name, inv[i].arguments,
                        IF inv[i].reply.kind = "response" /\ inv[i].reply.status = 200
                           /\ inv[i].reply.valid
                        THEN inv[i].reply.data ELSE PyNone)

\* every ended invocation has the result of a run alone on its own reply
ResultsAsAlone ==
    /\ \A i \in Calls : inv[i].pc = "done" => inv[i].blocks = BlocksAlone(i)
    /\ \A i \in Lists : inv[i].pc = "done" =>
          Names(inv[i].tools) = IF i \in Fetched THEN NamesFrom(CatalogOf(i)) ELSE <<>>

\* C18: under every interleaving of in-flight call_tool and list_tools
\* invocations, no step changes upstream_url or enabledTools, no step of one
\* invocation changes another one, and every invocation ends with the result
\* it would have alone on the same upstream response.
C18_NoSharedMutableState ==
    [][/\ upstream_url' = upstream_url
       /\ enabled_tools' = enabled_tools
       /\ Cardinality({i \in Tasks : inv'[i] # inv[i]}) <= 1
       /\ ResultsAsAlone']_vars

\* C18 witness: while a call is in flight, a list call has ended with a list
\* that an earlier validation would not have allowed it to skip
C18_Witness ==
    \E i \in Fetched, j \in Calls :
        /\ inv[j].pc = "await"
        /\ validated_once
        /\ inv[i].fault.raised = "ValueError"
        /\ inv[i].tools = <<>>

\* C19: a process creates one HTTP client, every upstream request is sent
\* with that client, and on every path by which main ends after the proxy
\* was created (end of the session, an error, cancellation, both outcomes of
\* --list-tools) the client is closed when the process exits.
C19_ClientClosedOnExit ==
    /\ main.client.created <= 1
    /\ (main.http # <<>> \/ \E i \in Tasks : inv[i].http # <<>>) =>
          main.client.created = 1
    /\ main.pc # "exited" => ~main.client.is_closed
    /\ main.pc = "exited" =>
          /\ main.exit_code.some
          /\ main.client.created = 1
          /\ main.client.is_closed

\* C19 witness: --list-tools has failed: the process has exited with code 1
\* and its client is closed
C19_Witness ==
    /\ main.pc = "exited"
    /\ main.mode = "list_tools"
    /\ main.exit_code = ExitCode(1)
    /\ main.client.is_closed

\* the tools/call dispatches whose tool name is outside the routing table
\* or missing
Fallbacks ==
    {i \in Tasks : /\ inv[i].pc = "await"
                   /\ inv[i].method = "tools/call"
                   /\ ("name" \in DOMAIN inv[i].params => inv[i].params["name"] \notin TableNames)}

\* C20: a tools/call whose tool name is not in the routing table, or is
\* missing, has issued one request: a POST to the MCP endpoint (the upstream
\* URL as configured) with the JSON body {method: "tools/call", params} whose
\* params are those of the call, arguments whole; it has issued no GET.
C20_FallbackPostsWholeArguments ==
    \A i \in Fallbacks :
        /\ Len(inv[i].http) = 1
        /\ inv[i].http[1].verb = "POST"
        /\ inv[i].http[1].url = upstream_url
        /\ inv[i].http[1].json = <<[method |-> "tools/call", params |-> inv[i].params]>>
        /\ inv[i].kind = "call_tool" =>
              inv[i].http[1].json[1].params =
                 [name |-> inv[i].name, arguments |-> inv[i].arguments]

\* C20 witness: custom_tool called with reference and bogus has been posted
\* with both
C20_Witness ==
    \E i \in Fallbacks :
        /\ inv[i].kind = "call_tool"
        /\ inv[i].name = "custom_tool"
        /\ inv[i].http[1].verb = "POST"
        /\ inv[i].http[1].json[1].params["arguments"]
              = [reference |-> "John 3:16", bogus |-> "en"]

----------------------------------------------------------------------------
(* The shapes of the normalizer, one by one *)

\* the calls whose upstream payload went through the if/elif chain
Normalized == {i \in Answered : Truthy(inv[i].response)}

\* the calls normalised by the shape of key k
ShapedBy(k) ==
    {i \in Normalized : WinningKeys(inv[i].response.fields) = {k}}

\* one scripture entry as documented: the text, then " (translation)" when
\* the translation is not empty
RenderScripture(e) ==
    <<IF "text" \in DOMAIN e THEN e["text"] ELSE "">>
    \o (IF "translation" \in DOMAIN e /\ e["translation"] # ""
        THEN <<" (", e["translation"], ")">> ELSE <<>>)

\* the entries in order, a blank line between two of them
RECURSIVE JoinedByBlankLine(_)
JoinedByBlankLine(entries) ==
    IF Len(entries) = 1 THEN RenderScripture(entries[1])
    ELSE RenderScripture(Head(entries)) \o <<"\n\n">> \o JoinedByBlankLine(Tail(entries))

\* C21: a payload normalised by the scripture shape with a non-empty list
\* gives exactly one block: the entries in order, joined by a blank line,
\* each its text followed by " (translation)" exactly when the translation is
\* not empty; [{text: T, translation: "ULT"}] gives "T (ULT)".
C21_ScriptureEntriesJoined ==
    \A i \in ShapedBy("scripture") :
        LET v == inv[i].response.fields["scripture"]
        IN  (v.t = "list" /\ v.items # <<>>) =>
               /\ inv[i].blocks = <<[type |-> "text", text |-> JoinedByBlankLine(v.items)]>>
               /\ (v.items = <<[text |-> "For God so loved the world...",
                               translation |-> "ULT"]>>
                     => inv[i].blocks[1].text
                          = <<"For God so loved the world...", " (", "ULT", ")">>)

C21_Witness ==
    \E i \in ShapedBy("scripture") :
        /\ inv[i].response.fields["scripture"]
              = JList(<<[text |-> "For God so loved the world...", translation |-> "ULT"],
                        [text |-> "T2", translation |-> ""]>>)
        /\ inv[i].blocks
              = <<[type |-> "text",
                   text |-> <<"For God so loved the world...", " (", "ULT", ")",
                              "\n\n", "T2">>]>>

\* the text items of a content list, in order
RECURSIVE TextItems(_)
TextItems(items) ==
    IF items = <<>> THEN <<>>
    ELSE IF "type" \in DOMAIN Head(items) /\ Head(items)["type"] = "text"
    THEN <<Head(items)>> \o TextItems(Tail(items))
    ELSE TextItems(Tail(items))

\* a content value as the upstream documents it: a list of items, each text
\* item carrying its text
IsContentList(v) ==
    /\ v.t = "list"
    /\ \A k \in 1..Len(v.items) :
          ("type" \in DOMAIN v.items[k] /\ v.items[k]["type"] = "text")
             => "text" \in DOMAIN v.items[k]

C24_EmptyListMessages ==
    /\ \A i \in ShapedBy("scripture") :
          inv[i].response.fields["scripture"] = JList(<<>>)
            => inv[i].blocks = <<[type |-> "text", text |-> <<"No scripture text found">>]>>
    /\ \A i \in ShapedBy("words") :
          inv[i].response.fields["words"] = JList(<<>>)
            => inv[i].blocks
                 = <<[type |-> "text",
                      text |-> <<"No translation words found for this reference.">>]>>
    /\ \A i \in ShapedBy("questions") :
          inv[i].response.fields["questions"] = JList(<<>>)
            => inv[i].blocks
                 = <<[type |-> "text",
                      text |-> <<"No translation questions found for this reference.">>]>>

C24_Witness ==
    \E i \in ShapedBy("words") :
        /\ inv[i].response.fields["words"] = JList(<<>>)
        /\ "reference" \in DOMAIN inv[i].arguments
        /\ inv[i].blocks
              = <<[type |-> "text",
                   text |-> <<"No translation words found for this reference.">>]>>

\* the keys of the notes shape, in the documented order
NotesKeys == <<"notes", "verseNotes", "items">>

\* the calls normalised by the notes shape whose notes values are lists
NotesShaped ==
    {i \in Normalized :
        LET f == inv[i].response.fields
        IN  /\ WinningKeys(f) # {}
            /\ WinningKeys(f) \subseteq Range(NotesKeys)
            /\ \A k \in WinningKeys(f) : f[k].t = "list"}

\* the text of a note: the first non-empty of Note, note, text, content,
\* else the note's string form
NoteText(note) ==
    LET Filled(k) == k \in DOMAIN note /\ note[k] # ""
    IN  IF Filled("Note") THEN note["Note"]
        ELSE IF Filled("note") THEN note["note"]
        ELSE IF Filled("text") THEN note["text"]
        ELSE IF Filled("content") THEN note["content"]
        ELSE PyStr(note)

\* the numbered entries k..Len(notes) of a notes list
RECURSIVE NumberedFrom(_, _)
NumberedFrom(k, notes) ==
    IF k > Len(notes) THEN <<>>
    ELSE <<ToString(k), ". ", NoteText(notes[k]), "\n\n">> \o NumberedFrom(k + 1, notes)

\* the single block of a non-empty notes list
NotesBlock(notes, arguments) ==
    [type |-> "text",
     text |-> <<"Translation Notes for ",
                IF "reference" \in DOMAIN arguments THEN arguments["reference"]
                ELSE "Reference",
                ":\n\n">> \o NumberedFrom(1, notes)]

NoNotesBlock ==
    [type |-> "text", text |-> <<"No translation notes found for this reference.">>]

\* the list under the first key present among notes, verseNotes, items
FirstPresentList(f) ==
    LET present == SelectSeq(NotesKeys, LAMBDA k : k \in DOMAIN f)
    IN  f[present[1]].items

\* the first non-empty list among notes, verseNotes, items; <<>> when none
FirstNonEmptyList(f) ==
    LET filled == SelectSeq(NotesKeys, LAMBDA k : k \in DOMAIN f /\ f[k].items # <<>>)
    IN  IF filled = <<>> THEN <<>> ELSE f[filled[1]].items

\* C25 as stated: the list rendered is the value of the first key present
\* among notes, verseNotes, items (presence decides, not emptiness); when it
\* is empty the result is the single block "No translation notes found for
\* this reference." even when a later key holds a non-empty list.
C25_FirstPresentKeyDecides ==
    \A i \in NotesShaped :
        LET notes == FirstPresentList(inv[i].response.fields)
        IN  inv[i].blocks = IF notes = <<>> THEN <<NoNotesBlock>>
                            ELSE <<NotesBlock(notes, inv[i].arguments)>>

\* C25 amended: the list rendered is the first non-empty list among notes,
\* verseNotes, items in that order, a key that is absent or holds an empty
\* list being passed over; the result is the single block "No translation
\* notes found for this reference." only when none of the three holds a
\* non-empty list.
C25_FirstNonEmptyListDecides ==
    \A i \in NotesShaped :
        LET notes == FirstNonEmptyList(inv[i].response.fields)
        IN  inv[i].blocks = IF notes = <<>> THEN <<NoNotesBlock>>
                            ELSE <<NotesBlock(notes, inv[i].arguments)>>

C25_Witness ==
    \E i \in NotesShaped :
        /\ inv[i].response.fields
              = [notes |-> JList(<<>>), verseNotes |-> JList(<<[note |-> "v1"]>>)]
        /\ inv[i].arguments = EmptyDict
        /\ inv[i].blocks
              = <<[type |-> "text",
                   text |-> <<"Translation Notes for ", "Reference", ":\n\n",
                              "1", ". ", "v1", "\n\n">>]>>

\* the payload fields match none of the known shapes
NoShape(f) ==
    /\ DOMAIN f \cap {"content", "scripture", "notes", "verseNotes", "items",
                      "words", "questions", "result"} = {}
    /\ ~({"term", "definition"} \subseteq DOMAIN f)

\* C26: every successful upstream payload (status 200, valid JSON) that
\* matches none of the known shapes, the empty JSON object included, gives
\* exactly one block whose text is the pretty-printed JSON of the entire
\* payload, and is never reported as an upstream failure.
C26_UnshapedPayloadPrettyPrinted ==
    \A i \in Answered :
        NoShape(inv[i].reply.data.fields)
          => /\ inv[i].blocks = <<[type |-> "text", text |-> <<JsonDumps(inv[i].reply.data)>>]>>
             /\ inv[i].blocks[1].text # <<"Error: No response from upstream server">>

\* C27: a non-empty notes list of length n gives a single block that starts
\* with the header "Translation Notes for {reference}:" (the reference
\* argument, or the literal "Reference" without one) followed by exactly n
\* entries numbered 1..n in input order, entry k being "{k}. {note_text}",
\* note_text the first non-empty of Note, note, text, content, else the
\* note's string form.
C27_NotesNumberedUnderHeader ==
    \A i \in NotesShaped :
        LET notes == FirstNonEmptyList(inv[i].response.fields)
            n == Len(notes)
        IN  n > 0 =>
              /\ Len(inv[i].blocks) = 1
              /\ inv[i].blocks[1].type = "text"
              /\ LET text == inv[i].blocks[1].text
                 IN  /\ Len(text) = 3 + 4 * n
                     /\ SubSeq(text, 1, 3)
                          = <<"Translation Notes for ",
                              IF "reference" \in DOMAIN inv[i].arguments
                              THEN inv[i].arguments["reference"] ELSE "Reference",
                              ":\n\n">>
                     /\ \A k \in 1..n :
                          SubSeq(text, 4 * k, 4 * k + 3)
                            = <<ToString(k), ". ", NoteText(notes[k]), "\n\n">>

C27_Witness ==
    \E i \in NotesShaped :
        /\ inv[i].response.fields
              = [notes |-> JList(<<[Note |-> "", note |-> "n2"], [Reference |-> "3:16"]>>)]
        /\ inv[i].arguments = [reference |-> "John 3:16"]
        /\ inv[i].blocks
              = <<[type |-> "text",
                   text |-> <<"Translation Notes for ", "John 3:16", ":\n\n",
                              "1", ". ", "n2", "\n\n",
                              "2", ". ", PyStr([Reference |-> "3:16"]), "\n\n">>]>>

\* the direct calls of _call_upstream that have issued their request
Dispatched == {i \in Tasks : inv[i].kind = "_call_upstream" /\ inv[i].pc = "await"}

\* C28: tools/list always issues GET {base}?method=tools/list, whatever
\* params it is given, with no query parameters and no body; every method
\* other than tools/list and tools/call issues one POST to the base URL whose
\* body is {method, params}, the method and the params unchanged.
C28_DispatchByMethod ==
    \A i \in Dispatched :
        /\ inv[i].method = "tools/list"
             => inv[i].http = <<[verb |-> "GET",
                                 url |-> upstream_url \o <<"?method=tools/list">>,
                                 params |-> EmptyDict, json |-> NoBody]>>
        /\ inv[i].method \notin {"tools/list", "tools/call"}
             => inv[i].http = <<[verb |-> "POST", url |-> upstream_url,
                                 params |-> EmptyDict,
                                 json |-> <<[method |-> inv[i].method,
                                             params |-> inv[i].params]>>]>>

C28_Witness ==
    /\ upstream_url # DefaultUrl
    /\ \E i \in Dispatched :
          /\ inv[i].method = "tools/list"
          /\ inv[i].params = [name |-> "fetch_scripture",
                               arguments |-> [reference |-> "John 3:16"]]
          /\ inv[i].http[1].verb = "GET"
          /\ inv[i].http[1].params = EmptyDict

C28_WitnessOtherMethod ==
    \E i \in Dispatched :
        /\ inv[i].method = "resources/list"
        /\ inv[i].params # EmptyDict
        /\ inv[i].http[1].verb = "POST"

\* the list invocations that have returned
ListsDone == {i \in Lists : inv[i].pc = "done"}

\* C29: when the catalog fetch yields no usable catalog (the upstream call
\* failed, or the response has no tools key) the catalog filter returns the
\* empty list without validating the enabled tools: that call raises no
\* configuration error even when enabledTools has unknown names; and the
\* validation is attempted again by the next list call, which fails on a
\* fetched catalog that lacks an enabled name.
C29_NoCatalogSkipsValidation ==
    \A i \in ListsDone :
        /\ NoCatalog(i) => (inv[i].fault = NoFault /\ inv[i].tools = <<>>)
        /\ (i \in Fetched /\ enabled_tools.some
               /\ \E name \in Range(enabled_tools.val) :
                     \A k \in 1..Len(CatalogOf(i)) : CatalogOf(i)[k]["name"] # name)
             => (inv[i].fault.raised = "ValueError" /\ inv[i].tools = <<>>)

\* C29 witness: with an enabled name that the catalog lacks, one list call
\* got a response without tools key and returned [] without an error, and
\* another one, on a fetched catalog, failed the validation
C29_Witness ==
    \E i \in ListsDone, j \in Fetched :
        /\ enabled_tools = Some(<<"fetch_scripture", "fetch_translation_notes">>)
        /\ inv[i].response = JDict([error |-> JStr("not found")])
        /\ inv[i].fault = NoFault
        /\ inv[i].tools = <<>>
        /\ CatalogOf(j) = <<[name |-> "fetch_scripture", description |-> "upstream description"]>>
        /\ inv[j].fault = [raised |-> "ValueError", unknown |-> {"fetch_translation_notes"}]

C29_WitnessUpstreamFailure ==
    \E i \in ListsDone, j \in Fetched :
        /\ enabled_tools = Some(<<"fetch_scripture", "fetch_translation_notes">>)
        /\ inv[i].reply = HttpTimeout
        /\ inv[i].fault = NoFault
        /\ inv[i].tools = <<>>
        /\ inv[j].fault.raised = "ValueError"

\* C30: the startup connectivity check is advisory only: test_connection
\* never raises, it returns true on status 200 and false on any other status
\* and on any exception of the request; and in normal mode main goes on to
\* run the server whether it returned true or false.
C30_ConnectivityCheckIsAdvisory ==
    main.reply # NoReply =>
        /\ main.mode = "serve"
        /\ main.pc = "checked"
        /\ main.exit_code = Running
        /\ main.connected
             = [some |-> TRUE,
                val |-> main.reply.kind = "response" /\ main.reply.status = 200]
        /\ ENABLED MainRun

\* C30 witness: the ping has timed out, test_connection has returned false,
\* and main is about to run the server
C30_Witness ==
    /\ main.pc = "checked"
    /\ main.reply = HttpTimeout
    /\ main.connected = [some |-> TRUE, val |-> FALSE]
    /\ ~main.client.is_closed

C30_WitnessNon200 ==
    /\ main.pc = "checked"
    /\ main.reply = HttpResponse(500, TRUE, PyNone)
    /\ main.connected = [some |-> TRUE, val |-> FALSE]

====
